---------------------------- MODULE Spec2Model ----------------------------
(***************************************************************************)
(* A model of the OKLCH hue-preservation post-processor                    *)
(* (OKLCHPostProcessor) of better-material-theme-builder.                  *)
(*                                                                         *)
(* Colours live on a small grid: a lightness l in 0..MaxL, a chroma c in   *)
(* 0..MaxC and a hue h in whole degrees.  A hex string is a grid point     *)
(* with its hue normalised to 0..359 and no hue at all when its chroma is  *)
(* zero; an OKLCH object keeps whatever hue the code put into it.  The     *)
(* rounding of a colour to 8-bit channels is below the grid.               *)
(*                                                                         *)
(* The colour library (culori) is the environment: the variable gamut      *)
(* holds the display gamut the library decides by and the hues at which    *)
(* its chroma clamp returns no colour.                                     *)
(***************************************************************************)
EXTENDS Integers, Sequences, FiniteSets, TLC

VARIABLES
    pc,               \* position inside processColorScheme
    colorScheme,      \* the record handed to processColorScheme, as it was at the call
    callerRecord,     \* what the caller's record holds now
    options,          \* the options handed to processColorScheme
    processedScheme,  \* the deep clone that is being corrected
    paletteIndex,     \* position of the for loop over affectedPalettes
    result,           \* what processColorScheme returned
    gamut,            \* the colour library's gamut (environment)
    previous,         \* what the call before this one returned, if there was one
    settings,         \* what the page's inputs hold (UIManager)
    microtasks,       \* the continuations waiting behind an await, oldest first
    originalResult,   \* ExportManager.originalResult
    displayed,        \* the text of the output element
    resumed,          \* the continuation that is running
    lastRead,         \* the settings the latest trigger read
    triggers,         \* how often regenerateWithExtendedColors was called
    storedFrom,       \* the number of the trigger whose result is stored
    w3cResult,        \* the design tokens updateResultFormat converted the result to
    coreColorsManager,\* the fields of the CoreColorsManager
    coreColorsDOM,    \* the reset buttons and inputs of the core colours, the seed input
    urlManager,       \* the fields of the URLManager: debounceTimeout, lastUrl
    browser,          \* the browser's timers and window.location.search
    urlHistory,       \* the calls of updateURL so far
    restored          \* what getSettingsFromURL returned, with what was passed

\* The page around the post-processor (MaterialColorApp and its managers).
application == <<settings, microtasks, resumed, originalResult, displayed, lastRead, triggers,
                 storedFrom, w3cResult, coreColorsManager, coreColorsDOM>>

\* The URL manager and what it works on.
urlState == <<urlManager, browser, urlHistory, restored>>

\* What a call of processColorScheme has no access to.
others == <<previous, application, urlState>>

vars == <<pc, colorScheme, callerRecord, options, processedScheme, paletteIndex, result, gamut,
          others>>

---------------------------------------------------------------------------
(* Bounds of the colour grid. *)
MaxL == 3
MaxC == 3

---------------------------------------------------------------------------
(* Strings are sequences of one-character strings. *)

UpperCaseLetters == <<"A", "B", "C", "D", "E", "F", "G", "H", "I", "J", "K", "L", "M",
                      "N", "O", "P", "Q", "R", "S", "T", "U", "V", "W", "X", "Y", "Z">>
LowerCaseLetters == <<"a", "b", "c", "d", "e", "f", "g", "h", "i", "j", "k", "l", "m",
                      "n", "o", "p", "q", "r", "s", "t", "u", "v", "w", "x", "y", "z">>

IsUpperCase(ch) == \E i \in 1..26 : UpperCaseLetters[i] = ch

LowerCaseChar(ch) ==
    IF IsUpperCase(ch)
    THEN LowerCaseLetters[CHOOSE i \in 1..26 : UpperCaseLetters[i] = ch]
    ELSE ch

UpperCaseChar(ch) ==
    IF \E i \in 1..26 : LowerCaseLetters[i] = ch
    THEN UpperCaseLetters[CHOOSE i \in 1..26 : LowerCaseLetters[i] = ch]
    ELSE ch

toLowerCase(s) == [i \in 1..Len(s) |-> LowerCaseChar(s[i])]

startsWith(s, prefix) ==
    Len(s) >= Len(prefix) /\ SubSeq(s, 1, Len(prefix)) = prefix

endsWith(s, suffix) ==
    Len(s) >= Len(suffix) /\ SubSeq(s, Len(s) - Len(suffix) + 1, Len(s)) = suffix

includes(s, part) ==
    \E i \in 1..(Len(s) - Len(part) + 1) : SubSeq(s, i, i + Len(part) - 1) = part

\* colorRole.match(/^on[A-Z]/)
MatchesOnUpper(s) ==
    Len(s) >= 3 /\ s[1] = "o" /\ s[2] = "n" /\ IsUpperCase(s[3])

---------------------------------------------------------------------------
(* Names of palettes and colour roles. *)

primary == <<"p", "r", "i", "m", "a", "r", "y">>
neutral == <<"n", "e", "u", "t", "r", "a", "l">>
neutralVariant == <<"n", "e", "u", "t", "r", "a", "l", "V", "a", "r", "i", "a", "n", "t">>
scrim == <<"s", "c", "r", "i", "m">>
shadow == <<"s", "h", "a", "d", "o", "w">>
surface == <<"s", "u", "r", "f", "a", "c", "e">>
surfaceDim == <<"s", "u", "r", "f", "a", "c", "e", "D", "i", "m">>
surfaceBright == <<"s", "u", "r", "f", "a", "c", "e", "B", "r", "i", "g", "h", "t">>
surfaceContainerLowest == <<"s", "u", "r", "f", "a", "c", "e", "C", "o", "n", "t", "a", "i", "n", "e", "r", "L", "o", "w", "e", "s", "t">>
surfaceContainerLow == <<"s", "u", "r", "f", "a", "c", "e", "C", "o", "n", "t", "a", "i", "n", "e", "r", "L", "o", "w">>
surfaceContainer == <<"s", "u", "r", "f", "a", "c", "e", "C", "o", "n", "t", "a", "i", "n", "e", "r">>
surfaceContainerHigh == <<"s", "u", "r", "f", "a", "c", "e", "C", "o", "n", "t", "a", "i", "n", "e", "r", "H", "i", "g", "h">>
surfaceContainerHighest == <<"s", "u", "r", "f", "a", "c", "e", "C", "o", "n", "t", "a", "i", "n", "e", "r", "H", "i", "g", "h", "e", "s", "t">>
outline == <<"o", "u", "t", "l", "i", "n", "e">>
outlineVariant == <<"o", "u", "t", "l", "i", "n", "e", "V", "a", "r", "i", "a", "n", "t">>
inverseSurface == <<"i", "n", "v", "e", "r", "s", "e", "S", "u", "r", "f", "a", "c", "e">>
inverseOnSurface == <<"i", "n", "v", "e", "r", "s", "e", "O", "n", "S", "u", "r", "f", "a", "c", "e">>
inversePrimary == <<"i", "n", "v", "e", "r", "s", "e", "P", "r", "i", "m", "a", "r", "y">>
onPrimaryContainer == <<"o", "n", "P", "r", "i", "m", "a", "r", "y", "C", "o", "n", "t", "a", "i", "n", "e", "r">>
surfaceTint == <<"s", "u", "r", "f", "a", "c", "e", "T", "i", "n", "t">>
primaryFixed == <<"p", "r", "i", "m", "a", "r", "y", "F", "i", "x", "e", "d">>
\* An extended colour the user named "Fixed", and one of its roles.
fixed == <<"f", "i", "x", "e", "d">>
onFixed == <<"o", "n", " ", "f", "i", "x", "e", "d">>

\* Extended colours the user named "Brand Blue", "Surface", "Outline" and "On Air":
\* sanitizeColorName gives the names of their palettes.
brandBlue == <<"b", "r", "a", "n", "d", " ", "b", "l", "u", "e">>
onAir == <<"o", "n", " ", "a", "i", "r">>

secondary == <<"s", "e", "c", "o", "n", "d", "a", "r", "y">>
tertiary == <<"t", "e", "r", "t", "i", "a", "r", "y">>
error == <<"e", "r", "r", "o", "r">>
onSurface == <<"o", "n", "S", "u", "r", "f", "a", "c", "e">>

\* JavaScript's null, as a value of PALETTE_MAPPING.
Null == <<"null">>

---------------------------------------------------------------------------
(* Colours. *)

\* The h of an OKLCH object that has none (undefined), and a referenceHue of null.
NoHue == 1000

Lightness == 0..MaxL
Chroma == 0..MaxC

\* A hex colour string "#rrggbb".
HexColor(l, c, h) == [kind |-> "hex", l |-> l, c |-> c, h |-> IF c = 0 THEN NoHue ELSE h % 360]
\* A string that is no colour.
BadHex == [kind |-> "bad", l |-> 0, c |-> 0, h |-> NoHue]
\* No string at all (undefined).
NoColor == [kind |-> "none", l |-> 0, c |-> 0, h |-> NoHue]

Undefined == [mode |-> "undefined", l |-> 0, c |-> 0, h |-> NoHue]

\* converter('oklch'): undefined for what does not parse; an achromatic colour
\* comes back without a hue.
toOklch(hex) ==
    IF hex.kind = "hex"
    THEN [mode |-> "oklch", l |-> hex.l, c |-> hex.c,
          h |-> IF hex.c = 0 THEN NoHue ELSE hex.h]
    ELSE Undefined

\* formatHex: a missing hue counts as 0, a hue is taken modulo 360, and a colour
\* without chroma has no hue left in its hex string.
formatHex(color) ==
    IF color.mode = "undefined"
    THEN NoColor
    ELSE HexColor(color.l, color.c, IF color.h = NoHue THEN 0 ELSE color.h)

\* The angle between two hues, in degrees.
HueDistance(a, b) ==
    LET d == (a - b) % 360
    IN  IF d > 180 THEN 360 - d ELSE d

---------------------------------------------------------------------------
(* The colour library's gamut. *)

\* The greatest chroma the display shows at lightness l and hue h: none at black
\* and white, gamut.spots at the hues it names, gamut.base[l] elsewhere.
MaxChromaInGamut(l, h) ==
    LET hue == (IF h = NoHue THEN 0 ELSE h) % 360
    IN  IF l = 0 \/ l = MaxL THEN 0
        ELSE IF hue \in DOMAIN gamut.spots THEN gamut.spots[hue]
        ELSE gamut.base[l]

\* inGamut('rgb')(color)
inGamut(color) == color.c <= MaxChromaInGamut(color.l, color.h)

\* clampChroma(color, 'oklch'): the colour itself when displayable, else the same
\* lightness and hue at the greatest displayable chroma, or no colour at all.
clampChroma(color) ==
    IF inGamut(color) THEN color
    ELSE IF ((IF color.h = NoHue THEN 0 ELSE color.h) % 360) \in gamut.noClamp THEN Undefined
    ELSE [color EXCEPT !.c = MaxChromaInGamut(color.l, color.h)]

---------------------------------------------------------------------------
(* OKLCHPostProcessor.findBestGamutColor *)

\* Variant: a clamped candidate replaces the best one when its chroma is as great.
RECURSIVE SearchLastOfEquals(_, _, _, _, _, _)
SearchLastOfEquals(originalColor, referenceHue, maxHueDeviation, k, bestColor, bestHueDeviation) ==
    IF k >= 2 * maxHueDeviation
    THEN [color |-> bestColor, hueDeviation |-> bestHueDeviation]
    ELSE LET deviation == (k \div 2) + 1
             sign == IF k % 2 = 0 THEN -1 ELSE 1
             testColor == [mode |-> "oklch", l |-> originalColor.l,
                           c |-> originalColor.c, h |-> referenceHue + (deviation * sign)]
             clamped == clampChroma(testColor)
         IN  IF inGamut(testColor)
             THEN [color |-> testColor, hueDeviation |-> deviation]
             ELSE IF clamped.mode # "undefined" /\ clamped.c >= bestColor.c
             THEN SearchLastOfEquals(originalColor, referenceHue, maxHueDeviation,
                                     k + 1, clamped, deviation)
             ELSE SearchLastOfEquals(originalColor, referenceHue, maxHueDeviation,
                                     k + 1, bestColor, bestHueDeviation)

\* Variant: the loop runs from the widest deviation down to 1.
RECURSIVE SearchFromWidest(_, _, _, _, _, _)
SearchFromWidest(originalColor, referenceHue, maxHueDeviation, k, bestColor, bestHueDeviation) ==
    IF k >= 2 * maxHueDeviation
    THEN [color |-> bestColor, hueDeviation |-> bestHueDeviation]
    ELSE LET deviation == maxHueDeviation - (k \div 2)
             sign == IF k % 2 = 0 THEN -1 ELSE 1
             testColor == [mode |-> "oklch", l |-> originalColor.l,
                           c |-> originalColor.c, h |-> referenceHue + (deviation * sign)]
             clamped == clampChroma(testColor)
         IN  IF inGamut(testColor)
             THEN [color |-> testColor, hueDeviation |-> deviation]
             ELSE IF clamped.mode # "undefined" /\ clamped.c > bestColor.c
             THEN SearchFromWidest(originalColor, referenceHue, maxHueDeviation,
                                   k + 1, clamped, deviation)
             ELSE SearchFromWidest(originalColor, referenceHue, maxHueDeviation,
                                   k + 1, bestColor, bestHueDeviation)

\* The loop body for one candidate (deviation, sign), candidates numbered from 0:
\* (1,-1), (1,+1), (2,-1), (2,+1), ...
RECURSIVE SearchHueVariations(_, _, _, _, _, _)
SearchHueVariations(originalColor, referenceHue, maxHueDeviation, k, bestColor, bestHueDeviation) ==
    IF k >= 2 * maxHueDeviation
    THEN [color |-> bestColor, hueDeviation |-> bestHueDeviation]
    ELSE LET deviation == (k \div 2) + 1
             sign == IF k % 2 = 0 THEN -1 ELSE 1
             testHue == referenceHue + (deviation * sign)
             testColor == [mode |-> "oklch", l |-> originalColor.l,
                           c |-> originalColor.c, h |-> testHue]
             clamped == clampChroma(testColor)
         IN  IF inGamut(testColor)
             THEN [color |-> testColor, hueDeviation |-> deviation]
             ELSE IF clamped.mode # "undefined" /\ clamped.c > bestColor.c
             THEN SearchHueVariations(originalColor, referenceHue, maxHueDeviation,
                                      k + 1, clamped, deviation)
             ELSE SearchHueVariations(originalColor, referenceHue, maxHueDeviation,
                                      k + 1, bestColor, bestHueDeviation)

\* Variant: the search starts from the original colour, clamped or not.
BestIsOriginal(originalColor, clampedAtExactHue) == originalColor

\* The fallback when the exact hue is out of gamut: the clamped colour at the exact
\* hue, or the original colour when the clamp returns none.
BestAtExactHue(originalColor, clampedAtExactHue) ==
    IF clampedAtExactHue.mode # "undefined" THEN clampedAtExactHue ELSE originalColor

\* Variant: the colour of the tone's lightness at the reference hue with all the
\* chroma the display shows there.
GreatestChromaAtReferenceHue(originalColor, referenceHue, maxHueDeviation) ==
    [color |-> [mode |-> "oklch", l |-> originalColor.l,
                c |-> MaxChromaInGamut(originalColor.l, referenceHue), h |-> referenceHue],
     hueDeviation |-> 0]

\* Variant: the reference hue is put on the colour and nothing is tested or clamped.
ReplaceHueOnly(originalColor, referenceHue, maxHueDeviation) ==
    [color |-> [mode |-> "oklch", l |-> originalColor.l, c |-> originalColor.c,
                h |-> referenceHue],
     hueDeviation |-> 0]

\* Variant: the search over the neighbouring hues runs without the test at the
\* exact reference hue before it.
SearchWithoutExactHue(originalColor, referenceHue, maxHueDeviation) ==
    SearchHueVariations(originalColor, referenceHue, maxHueDeviation, 0,
                        BestAtExactHue(originalColor,
                            clampChroma([mode |-> "oklch", l |-> originalColor.l,
                                         c |-> originalColor.c, h |-> referenceHue])),
                        0)

findBestGamutColor(originalColor, referenceHue, maxHueDeviation) ==
    LET testColor == [mode |-> "oklch", l |-> originalColor.l,
                      c |-> originalColor.c, h |-> referenceHue]
        clampedAtExactHue == clampChroma(testColor)
        bestColor == BestAtExactHue(originalColor, clampedAtExactHue)
        bestHueDeviation ==
            IF clampedAtExactHue.mode # "undefined" THEN 0
            ELSE LET d == (IF originalColor.h = NoHue THEN 0 ELSE originalColor.h) - referenceHue
                 IN  IF d < 0 THEN -d ELSE d
    IN  IF inGamut(testColor)
        THEN [color |-> testColor, hueDeviation |-> 0]
        ELSE SearchHueVariations(originalColor, referenceHue, maxHueDeviation,
                                 0, bestColor, bestHueDeviation)

---------------------------------------------------------------------------
(* OKLCHPostProcessor.processPalette *)

\* A tonal palette is a function from tone keys to hex strings.  The tone keys
\* are the integer-like property names the generator writes ("0", "5", ... "100").

tonePreference == <<50, 40, 60, 30, 70, 20, 80, 10, 90>>

\* 0.02 on the chroma grid: chroma 1 and chroma 2 are colours with a hue and too
\* little chroma, in two degrees.
ChromaThreshold == 2

\* Variant: the first tone of the preference order that has a hue is taken,
\* whatever its chroma.
HueFromFirstTone(palette, i, referenceHue, maxChroma) ==
    LET withHue == { j \in i..Len(tonePreference) :
                        /\ tonePreference[j] \in DOMAIN palette
                        /\ toOklch(palette[tonePreference[j]]).mode # "undefined"
                        /\ toOklch(palette[tonePreference[j]]).h # NoHue }
    IN  IF withHue = {} THEN referenceHue
        ELSE toOklch(palette[tonePreference[CHOOSE j \in withHue :
                                               \A k \in withHue : j <= k]]).h

\* The fallback loop over tonePreference, from position i on.
RECURSIVE HueFromTones(_, _, _, _)
HueFromTones(palette, i, referenceHue, maxChroma) ==
    IF i > Len(tonePreference) THEN referenceHue
    ELSE LET toneKey == tonePreference[i]
             oklch == toOklch(palette[toneKey])
         IN  IF toneKey \notin DOMAIN palette
             THEN HueFromTones(palette, i + 1, referenceHue, maxChroma)
             ELSE IF oklch.mode = "undefined" \/ oklch.h = NoHue
             THEN HueFromTones(palette, i + 1, referenceHue, maxChroma)
             ELSE IF oklch.c > ChromaThreshold
             THEN oklch.h
             ELSE IF oklch.c > maxChroma
             THEN HueFromTones(palette, i + 1, oklch.h, oklch.c)
             ELSE HueFromTones(palette, i + 1, referenceHue, maxChroma)

\* Variant: the source colour is not looked at.
ReferenceHueFromTones(palette, sourceColor) == HueFromTones(palette, 1, NoHue, -1)

\* The reference hue of a palette, NoHue when there is none (null).
ReferenceHue(palette, sourceColor) ==
    LET sourceOklch == toOklch(sourceColor)
    IN  IF sourceColor.kind # "none" /\ sourceOklch.mode # "undefined" /\ sourceOklch.h # NoHue
        THEN sourceOklch.h
        ELSE HueFromTones(palette, 1, NoHue, -1)

MidToneMin == 40
MidToneMax == 60
MidToneDeviation == 5
OtherToneDeviation == 8

\* Variant: every tone is allowed the wider deviation.
WideHueDeviation(tone) == OtherToneDeviation

MaxHueDeviation(tone) ==
    IF tone >= MidToneMin /\ tone <= MidToneMax THEN MidToneDeviation ELSE OtherToneDeviation

\* The colour written for one tone.
ProcessTone(tone, hexColor, referenceHue) ==
    LET oklchColor == toOklch(hexColor)
    IN  IF oklchColor.mode = "undefined"
        THEN hexColor
        ELSE formatHex(findBestGamutColor(oklchColor, referenceHue, MaxHueDeviation(tone)).color)

\* Variant: nothing is returned for a palette without a reference hue.
processPaletteOrNothing(palette, sourceColor) ==
    LET referenceHue == ReferenceHue(palette, sourceColor)
    IN  IF referenceHue = NoHue
        THEN <<>>
        ELSE [tone \in DOMAIN palette |-> ProcessTone(tone, palette[tone], referenceHue)]

processPalette(palette, sourceColor) ==
    LET referenceHue == ReferenceHue(palette, sourceColor)
    IN  IF referenceHue = NoHue
        THEN palette
        ELSE [tone \in DOMAIN palette |-> ProcessTone(tone, palette[tone], referenceHue)]

---------------------------------------------------------------------------
(* OKLCHPostProcessor.extractPaletteName and PALETTE_MAPPING *)

OnSpacePrefix == <<"o", "n", " ">>
SpaceContainerSuffix == <<" ", "c", "o", "n", "t", "a", "i", "n", "e", "r">>
ContainerSuffix == <<"C", "o", "n", "t", "a", "i", "n", "e", "r">>
FixedMarker == <<"f", "i", "x", "e", "d">>

WithoutOnPrefix(colorRole) ==
    IF startsWith(colorRole, OnSpacePrefix) THEN SubSeq(colorRole, 4, Len(colorRole))
    ELSE IF MatchesOnUpper(colorRole) THEN SubSeq(colorRole, 3, Len(colorRole))
    ELSE colorRole

WithoutContainerSuffix(paletteName) ==
    IF endsWith(paletteName, SpaceContainerSuffix)
    THEN SubSeq(paletteName, 1, Len(paletteName) - 10)
    ELSE IF endsWith(paletteName, ContainerSuffix)
    THEN SubSeq(paletteName, 1, Len(paletteName) - 9)
    ELSE paletteName

extractPaletteName(colorRole) ==
    LET paletteName == WithoutContainerSuffix(WithoutOnPrefix(colorRole))
    IN  IF paletteName = <<>> THEN <<>>
        ELSE <<LowerCaseChar(paletteName[1])>> \o SubSeq(paletteName, 2, Len(paletteName))

PALETTE_MAPPING ==
    [k \in {surface, surfaceDim, surfaceBright, surfaceContainerLowest, surfaceContainerLow,
            surfaceContainer, surfaceContainerHigh, surfaceContainerHighest, outline,
            outlineVariant, inverseSurface, inverseOnSurface, inversePrimary, scrim, shadow} |->
        IF k \in {outline, outlineVariant} THEN neutralVariant
        ELSE IF k = inversePrimary THEN primary
        ELSE IF k \in {scrim, shadow} THEN Null
        ELSE neutral]

\* this.PALETTE_MAPPING[paletteName] || paletteName: a missing entry and a null
\* entry both give the palette name itself.
MappedPaletteName(paletteName) ==
    IF paletteName \in DOMAIN PALETTE_MAPPING /\ PALETTE_MAPPING[paletteName] # Null
    THEN PALETTE_MAPPING[paletteName]
    ELSE paletteName

---------------------------------------------------------------------------
(* OKLCHPostProcessor.regenerateSchemeColors *)

\* closestTone of null
NoTone == -1

\* minDifference of Infinity: more than any two lightnesses differ by.
Infinity == MaxL + 1

\* Variant: the least difference met so far is not kept, so that every tone that
\* converts replaces the one before it.
RECURSIVE LastToneThatConverts(_, _, _, _, _)
LastToneThatConverts(palette, tones, originalLightness, closestTone, minDifference) ==
    IF tones = {} THEN closestTone
    ELSE LET tone == CHOOSE t \in tones : \A u \in tones : t <= u
             toneOklch == toOklch(palette[tone])
             delta == toneOklch.l - originalLightness
             difference == IF delta < 0 THEN -delta ELSE delta
         IN  IF toneOklch.mode = "undefined"
             THEN LastToneThatConverts(palette, tones \ {tone}, originalLightness,
                                       closestTone, minDifference)
             ELSE IF difference < minDifference
             THEN LastToneThatConverts(palette, tones \ {tone}, originalLightness,
                                       tone, minDifference)
             ELSE LastToneThatConverts(palette, tones \ {tone}, originalLightness,
                                       closestTone, minDifference)

\* The loop over Object.entries(originalPalettes[mappedPaletteName]): integer-like
\* keys come in ascending order; `tones` are the keys still to visit.
RECURSIVE ClosestTone(_, _, _, _, _)
ClosestTone(palette, tones, originalLightness, closestTone, minDifference) ==
    IF tones = {} THEN closestTone
    ELSE LET tone == CHOOSE t \in tones : \A u \in tones : t <= u
             toneOklch == toOklch(palette[tone])
             delta == toneOklch.l - originalLightness
             difference == IF delta < 0 THEN -delta ELSE delta
         IN  IF toneOklch.mode = "undefined"
             THEN ClosestTone(palette, tones \ {tone}, originalLightness, closestTone, minDifference)
             ELSE IF difference < minDifference
             THEN ClosestTone(palette, tones \ {tone}, originalLightness, tone, difference)
             ELSE ClosestTone(palette, tones \ {tone}, originalLightness, closestTone, minDifference)

\* The colour a role is given from the processed colour at the matched tone:
\* the role's lightness and chroma, the processed colour's hue, clamped into gamut.
\* Variant: the role is given the processed palette colour as it is.
FinalColorFromPalette(originalOklch, processedOklch) ==
    IF ~inGamut(processedOklch) THEN clampChroma(processedOklch) ELSE processedOklch

FinalColor(originalOklch, processedOklch) ==
    LET finalColor == [mode |-> "oklch", l |-> originalOklch.l,
                       c |-> originalOklch.c, h |-> processedOklch.h]
    IN  IF ~inGamut(finalColor) THEN clampChroma(finalColor) ELSE finalColor

\* Variant: only the camel-case marker of the generator's own roles is looked for.
IsFixedVariantName(colorRole) == includes(colorRole, <<"F", "i", "x", "e", "d">>)

\* colorRole.toLowerCase().includes('fixed')
IsFixedRole(colorRole) == includes(toLowerCase(colorRole), FixedMarker)

\* Variant: the colour at the matched tone is read whether a tone was matched or
\* not, and the role is given what was read.
RegenerateRoleUnguarded(colorRole, originalHex, originalPalettes, processedPalettes) ==
    LET paletteName == extractPaletteName(colorRole)
        mappedPaletteName == MappedPaletteName(paletteName)
        originalOklch == toOklch(originalHex)
        closestTone == ClosestTone(originalPalettes[mappedPaletteName],
                                   DOMAIN originalPalettes[mappedPaletteName],
                                   originalOklch.l, NoTone, Infinity)
        processedHex == processedPalettes[mappedPaletteName][closestTone]
        processedOklch == toOklch(processedHex)
        finalColor == FinalColor(originalOklch, processedOklch)
    IN  IF IsFixedRole(colorRole)
        THEN [status |-> "fixed", hex |-> originalHex]
        ELSE IF mappedPaletteName = Null
        THEN [status |-> "not palette-based", hex |-> originalHex]
        ELSE IF mappedPaletteName \notin DOMAIN originalPalettes
                \/ mappedPaletteName \notin DOMAIN processedPalettes
        THEN [status |-> "no palette", hex |-> originalHex]
        ELSE IF originalOklch.mode = "undefined"
        THEN [status |-> "no colour", hex |-> originalHex]
        ELSE IF closestTone \notin DOMAIN processedPalettes[mappedPaletteName]
        THEN [status |-> "updated", hex |-> NoColor]
        ELSE IF processedOklch.mode = "undefined"
        THEN [status |-> "updated", hex |-> processedHex]
        ELSE IF finalColor.mode = "undefined"
        THEN [status |-> "threw", hex |-> originalHex]
        ELSE [status |-> "updated", hex |-> formatHex(finalColor)]

\* One iteration of the loop over the roles of a scheme: what became of the role
\* and the colour regenerated[colorRole] holds after it.
RegenerateRole(colorRole, originalHex, originalPalettes, processedPalettes) ==
    LET paletteName == extractPaletteName(colorRole)
        mappedPaletteName == MappedPaletteName(paletteName)
        originalOklch == toOklch(originalHex)
        closestTone == ClosestTone(originalPalettes[mappedPaletteName],
                                   DOMAIN originalPalettes[mappedPaletteName],
                                   originalOklch.l, NoTone, Infinity)
        processedHex == processedPalettes[mappedPaletteName][closestTone]
        processedOklch == toOklch(processedHex)
        finalColor == FinalColor(originalOklch, processedOklch)
    IN  IF IsFixedRole(colorRole)
        THEN [status |-> "fixed", hex |-> originalHex]
        ELSE IF mappedPaletteName = Null
        THEN [status |-> "not palette-based", hex |-> originalHex]
        ELSE IF mappedPaletteName \notin DOMAIN originalPalettes
                \/ mappedPaletteName \notin DOMAIN processedPalettes
        THEN [status |-> "no palette", hex |-> originalHex]
        ELSE IF originalOklch.mode = "undefined"
        THEN [status |-> "no colour", hex |-> originalHex]
        ELSE IF closestTone = NoTone
        THEN [status |-> "no matching tone", hex |-> originalHex]
        ELSE IF closestTone \notin DOMAIN processedPalettes[mappedPaletteName]
        THEN [status |-> "tone not in processed palette", hex |-> originalHex]
        ELSE IF processedOklch.mode = "undefined"
        THEN [status |-> "updated", hex |-> processedHex]
        ELSE IF finalColor.mode = "undefined"
        THEN [status |-> "threw", hex |-> originalHex]
        ELSE [status |-> "updated", hex |-> formatHex(finalColor)]

\* formatHex(finalColor).toLowerCase() throws a TypeError when the clamp returned
\* no colour; the loop and processColorScheme end there.
RegenerateThrows(scheme, originalPalettes, processedPalettes) ==
    \E colorRole \in DOMAIN scheme :
        RegenerateRole(colorRole, scheme[colorRole], originalPalettes, processedPalettes).status
            = "threw"

regenerateSchemeColors(scheme, originalPalettes, processedPalettes) ==
    [colorRole \in DOMAIN scheme |->
        RegenerateRole(colorRole, scheme[colorRole], originalPalettes, processedPalettes).hex]

---------------------------------------------------------------------------
(* OKLCHPostProcessor.processColorScheme, step by step *)

\* JSON.parse(JSON.stringify(colorScheme)): an equal record of its own.
DeepClone(record) == record

\* The object the caller handed over, and the one processedScheme is.
CallerObject == "the caller's record"
\* Variant: no clone is made, processedScheme is the object it was given.
SameObject(object) == object

ClonedObject(object) == "a new record"

\* What the caller's record holds after processedScheme was written to and holds
\* `content`: what it held, unless the two are one object.
CallerRecordAfter(held, content) ==
    IF ClonedObject(CallerObject) = CallerObject THEN content ELSE held

\* colorScheme.sourceColors || {}
SourceColorsOf(scheme) ==
    IF "sourceColors" \in DOMAIN scheme THEN scheme.sourceColors ELSE <<>>

\* sourceColors[paletteName], undefined when there is no such entry
SourceColorAt(sourceColors, paletteName) ==
    IF paletteName \in DOMAIN sourceColors THEN sourceColors[paletteName] ELSE NoColor

\* The source colour handed to processPalette for one affected palette.
SourceColorFor(sourceColors, paletteName, neutralHueFromPrimary) ==
    IF neutralHueFromPrimary /\ paletteName \in {neutral, neutralVariant}
          /\ SourceColorAt(sourceColors, primary).kind # "none"
    THEN SourceColorAt(sourceColors, primary)
    ELSE SourceColorAt(sourceColors, paletteName)

\* No call was made before this one.
NoCall == <<"no call">>

\* No page is around the call: processColorScheme is called on its own.
NoParams == [name \in {} |-> <<>>]

\* A URL: the empty string, or "?" and a query.
EmptyUrl == [empty |-> TRUE, params |-> NoParams]

\* The URL manager as its constructor leaves it, on a page without a query.
NewURLManager ==
    /\ urlManager = [debounceTimeout |-> 0, lastUrl |-> EmptyUrl]
    /\ browser = [timers |-> {}, location |-> EmptyUrl]
    /\ urlHistory = [calls |-> 0, sinceLastCall |-> 0, lastPassed |-> <<>>,
                     superseded |-> {}, ran |-> {}]
    /\ restored = <<>>

\* CORE_COLOR_TYPES: the keys of the core colours and the default colour the
\* input of each is set up with.
CORE_COLOR_TYPES ==
    << [key |-> primary, defaultColor |-> <<"#", "6", "7", "5", "0", "A", "4">>],
       [key |-> secondary, defaultColor |-> <<"#", "6", "2", "5", "B", "7", "1">>],
       [key |-> tertiary, defaultColor |-> <<"#", "7", "D", "5", "2", "6", "0">>],
       [key |-> error, defaultColor |-> <<"#", "B", "A", "1", "A", "1", "A">>],
       [key |-> neutral, defaultColor |-> <<"#", "6", "7", "6", "1", "6", "F">>],
       [key |-> neutralVariant, defaultColor |-> <<"#", "6", "8", "6", "1", "6", "A">>] >>

CoreColorKeys == { CORE_COLOR_TYPES[i].key : i \in DOMAIN CORE_COLOR_TYPES }

\* The CoreColorsManager after its constructor and initialize(): no custom
\* colour, every input set up with its default colour, and every reset button
\* in the state updateResetButtonState gives it.
NewCoreColorsManager ==
    /\ coreColorsManager = [customCoreColors |-> <<>>, programmaticUpdate |-> FALSE]
    /\ coreColorsDOM =
          [resetDisabled |-> [key \in CoreColorKeys |-> TRUE],
           hexInput |-> [key \in CoreColorKeys |->
                            (CHOOSE type \in { CORE_COLOR_TYPES[i] : i \in DOMAIN CORE_COLOR_TYPES } :
                                 type.key = key).defaultColor],
           seedColorInput |-> <<"#", "6", "7", "5", "0", "A", "4">>]

NoSettings == <<"no settings">>
NoTask == [trigger |-> 0]
Standalone ==
    /\ settings = NoSettings
    /\ microtasks = <<>>
    /\ originalResult = Null
    /\ displayed = Null
    /\ lastRead = NoSettings
    /\ triggers = 0
    /\ resumed = NoTask
    /\ storedFrom = 0
    /\ w3cResult = <<>>
    /\ NewCoreColorsManager
    /\ NewURLManager

\* Lines 42-66: the early return, or the clone the loops work on.
Start ==
    /\ pc = "start"
    /\ IF ~options.preserveHue \/ "tonalPalettes" \notin DOMAIN colorScheme
       THEN /\ pc' = "done"
            /\ result' = colorScheme
            /\ UNCHANGED <<processedScheme, paletteIndex>>
       ELSE /\ pc' = "palettes"
            /\ processedScheme' = DeepClone(colorScheme)
            /\ paletteIndex' = 1
            /\ UNCHANGED result
    /\ UNCHANGED <<colorScheme, options, gamut, callerRecord, others>>

\* Variant: an iteration of the loop processes every palette of the record, whether
\* it is named in affectedPalettes or not.
ProcessEveryPalette ==
    /\ pc = "palettes"
    /\ paletteIndex <= Len(options.affectedPalettes)
    /\ processedScheme' =
           [processedScheme EXCEPT !.tonalPalettes =
               [paletteName \in DOMAIN colorScheme.tonalPalettes |->
                   processPalette(colorScheme.tonalPalettes[paletteName],
                                  SourceColorFor(SourceColorsOf(colorScheme), paletteName,
                                                 options.neutralHueFromPrimary))]]
    /\ paletteIndex' = paletteIndex + 1
    /\ callerRecord' = CallerRecordAfter(callerRecord, processedScheme')
    /\ UNCHANGED <<pc, colorScheme, options, result, gamut, others>>

\* Lines 69-84: one iteration of the loop over affectedPalettes.
ProcessNextPalette ==
    /\ pc = "palettes"
    /\ paletteIndex <= Len(options.affectedPalettes)
    /\ LET paletteName == options.affectedPalettes[paletteIndex]
           sourceColor == SourceColorFor(SourceColorsOf(colorScheme), paletteName,
                                         options.neutralHueFromPrimary)
       IN  IF paletteName \in DOMAIN processedScheme.tonalPalettes
           THEN processedScheme' =
                    [processedScheme EXCEPT !.tonalPalettes[paletteName] =
                        processPalette(processedScheme.tonalPalettes[paletteName], sourceColor)]
           ELSE UNCHANGED processedScheme
    /\ paletteIndex' = paletteIndex + 1
    /\ callerRecord' = CallerRecordAfter(callerRecord, processedScheme')
    /\ UNCHANGED <<pc, colorScheme, options, result, gamut, others>>

\* Lines 86-101: both schemes are regenerated from the original and the processed
\* palettes; a TypeError thrown on the way ends processColorScheme.
RegenerateSchemes ==
    /\ pc = "palettes"
    /\ paletteIndex > Len(options.affectedPalettes)
    /\ LET originalPalettes == colorScheme.tonalPalettes
           processedPalettes == processedScheme.tonalPalettes
       IN  IF "schemes" \notin DOMAIN processedScheme
           THEN pc' = "return" /\ UNCHANGED processedScheme
           ELSE IF \/ RegenerateThrows(processedScheme.schemes.light, originalPalettes,
                                       processedPalettes)
                   \/ RegenerateThrows(processedScheme.schemes.dark, originalPalettes,
                                       processedPalettes)
           THEN pc' = "threw" /\ UNCHANGED processedScheme
           ELSE /\ pc' = "return"
                /\ processedScheme' =
                       [processedScheme EXCEPT !.schemes =
                           [light |-> regenerateSchemeColors(processedScheme.schemes.light,
                                          originalPalettes, processedPalettes),
                            dark |-> regenerateSchemeColors(processedScheme.schemes.dark,
                                          originalPalettes, processedPalettes)]]
    /\ callerRecord' = CallerRecordAfter(callerRecord, processedScheme')
    /\ UNCHANGED <<colorScheme, options, paletteIndex, result, gamut, others>>

\* Variant: the clone is returned with every field it has.
ReturnWithSourceColors ==
    /\ pc = "return"
    /\ result' = processedScheme
    /\ pc' = "done"
    /\ UNCHANGED <<colorScheme, options, processedScheme, paletteIndex, gamut, callerRecord, others>>

\* Lines 103-106: sourceColors is deleted from the clone, which is returned.
ReturnResult ==
    /\ pc = "return"
    /\ result' = [f \in DOMAIN processedScheme \ {"sourceColors"} |-> processedScheme[f]]
    /\ pc' = "done"
    /\ callerRecord' = CallerRecordAfter(callerRecord, result')
    /\ UNCHANGED <<colorScheme, options, processedScheme, paletteIndex, gamut, others>>

Next == Start \/ ProcessNextPalette \/ RegenerateSchemes \/ ReturnResult

\* The caller hands the record it was returned to processColorScheme again, with
\* the same options.
CallAgain ==
    /\ pc = "done"
    /\ previous = NoCall
    /\ Standalone
    /\ previous' = result
    /\ colorScheme' = result
    /\ callerRecord' = result
    /\ pc' = "start"
    /\ processedScheme' = <<>>
    /\ paletteIndex' = 0
    /\ result' = <<>>
    /\ UNCHANGED <<options, gamut, application, urlState>>

NextTwice == Next \/ CallAgain

---------------------------------------------------------------------------
(* The inputs. *)

\* The generator's TonalPalette.tone(t): lightness grows with the tone.
ToneLightness(tone) == (tone * MaxL) \div 100

\* Two hues six degrees apart, across 0: more than the deviation allowed to the
\* middle tones and less than the one allowed to the others.
HueSamples == {4, 358}

\* Every hex string of the record is a displayable colour.
Displayable(hex) == hex.kind # "hex" \/ inGamut(toOklch(hex))

AllDisplayable(scheme) ==
    /\ \A p \in DOMAIN scheme.tonalPalettes :
         \A t \in DOMAIN scheme.tonalPalettes[p] : Displayable(scheme.tonalPalettes[p][t])
    /\ \A p \in DOMAIN SourceColorsOf(scheme) : Displayable(SourceColorsOf(scheme)[p])
    /\ "schemes" \in DOMAIN scheme =>
         /\ \A r \in DOMAIN scheme.schemes.light : Displayable(scheme.schemes.light[r])
         /\ \A r \in DOMAIN scheme.schemes.dark : Displayable(scheme.schemes.dark[r])

FullGamut == [base |-> [l \in 1..(MaxL - 1) |-> MaxC], spots |-> <<>>, noClamp |-> {}]

\* Functions from the subsets of at most two elements of `keys` into `values`.
AtMostTwo(keys, values) ==
    UNION { [d -> values] : d \in {e \in SUBSET keys : Cardinality(e) <= 2} }

(* Spec: records with several palettes, the roles that resolve to them and to *)
(* none, every short list of affected palettes, under the full gamut.         *)

PaletteNames == {primary, neutral, scrim, fixed}
MaxAffected == 2
AffectedLists ==
    UNION { {a \in [1..n -> PaletteNames] : \A i, j \in 1..n : i # j => a[i] # a[j]} :
            n \in 0..MaxAffected }

SchemeTones == {50, 90}
\* A palette whose two tones share a hue, and one whose hue drifts with the tone.
SteadyPalette == [t \in SchemeTones |-> HexColor(ToneLightness(t), MaxC, 4)]
DriftingPalette ==
    [t \in SchemeTones |-> HexColor(ToneLightness(t), MaxC, IF t = 50 THEN 4 ELSE 358)]

\* The palettes a record may hold under each name.
SchemePalettes(name) ==
    IF name \in {primary, neutral} THEN {SteadyPalette, DriftingPalette} ELSE {DriftingPalette}

TonalPaletteSets ==
    UNION { { tp \in [present -> {SteadyPalette, DriftingPalette}] :
                \A name \in present : tp[name] \in SchemePalettes(name) } :
            present \in SUBSET PaletteNames }

\* The palette the generator draws each sampled role from: MaterialDynamicColors
\* takes primary, onPrimaryContainer, primaryFixed and surfaceTint from the primary
\* palette and surface from the neutral one, scrim from none; the roles of an
\* extended colour come from its own palette.
GeneratorPalette(colorRole) ==
    IF colorRole \in {primary, onPrimaryContainer, primaryFixed, surfaceTint} THEN primary
    ELSE IF colorRole = surface THEN neutral
    ELSE IF colorRole = onFixed THEN fixed
    ELSE Null

SchemeRoles == {primary, onPrimaryContainer, surface, surfaceTint, primaryFixed, scrim, onFixed}
RoleColors == {HexColor(1, MaxC, 358), HexColor(MaxL - 1, 1, 4)}

SchemeRecords ==
    { [tonalPalettes |-> tp,
       schemes |-> [light |-> [r \in SchemeRoles |-> cl], dark |-> [r \in SchemeRoles |-> cd]],
       sourceColors |-> [p \in DOMAIN tp |-> HexColor(1, MaxC, 4)]] :
        tp \in TonalPaletteSets,
        cl \in RoleColors, cd \in RoleColors }

WithoutSourceColors(record) == [f \in DOMAIN record \ {"sourceColors"} |-> record[f]]

Init ==
    /\ pc = "start"
    /\ gamut = FullGamut
    /\ \E record \in SchemeRecords : colorScheme \in {record, WithoutSourceColors(record)}
    /\ options \in [preserveHue : BOOLEAN, affectedPalettes : AffectedLists,
                    neutralHueFromPrimary : BOOLEAN]
    /\ processedScheme = <<>>
    /\ paletteIndex = 0
    /\ result = <<>>
    /\ callerRecord = colorScheme
    /\ previous = NoCall
    /\ Standalone
    /\ AllDisplayable(colorScheme)

Spec == Init /\ [][Next]_vars

(* SpecPalette: one palette and the roles drawn from it, over every colour of *)
(* the grid at the sampled hues, under gamuts of every shape around them.     *)

\* Hues the gamut may treat apart: the sampled hues, and the hues one degree to
\* either side of 4 and five degrees above it.
SpotHues == {4, 358, 3, 5, 9}
ChromaLevels == {0, 1, MaxC}

PaletteGamuts ==
    { [base |-> [l \in 1..(MaxL - 1) |-> b], spots |-> sp, noClamp |-> nc] :
        b \in ChromaLevels, sp \in AtMostTwo(SpotHues, ChromaLevels), nc \in {{}, {4}} }

PaletteTones == {35, 40, 60, 70}
ToneColors(tone) == { HexColor(ToneLightness(tone), c, h) : c \in Chroma, h \in HueSamples }

PaletteSourceColors == {NoColor, HexColor(1, 1, 4), HexColor(1, 0, 0)}
PaletteRoleColors == {HexColor(1, MaxC, 358), HexColor(1, 1, 4), BadHex}

PaletteRecords ==
    UNION { { [tonalPalettes |-> (primary :> (tone :> tc)),
               schemes |-> [light |-> (primary :> rc), dark |-> (onPrimaryContainer :> rc)],
               sourceColors |-> IF sc.kind = "none" THEN <<>> ELSE (primary :> sc)] :
                tc \in ToneColors(tone), rc \in PaletteRoleColors,
                sc \in PaletteSourceColors } :
            tone \in PaletteTones }

InitPalette ==
    /\ pc = "start"
    /\ gamut \in PaletteGamuts
    /\ colorScheme \in PaletteRecords
    /\ options = [preserveHue |-> TRUE, affectedPalettes |-> <<primary>>,
                  neutralHueFromPrimary |-> FALSE]
    /\ processedScheme = <<>>
    /\ paletteIndex = 0
    /\ result = <<>>
    /\ callerRecord = colorScheme
    /\ previous = NoCall
    /\ Standalone
    /\ AllDisplayable(colorScheme)

SpecPalette == InitPalette /\ [][Next]_vars

(* SpecHue: one affected palette of up to four tones, each with a hue of its   *)
(* own and any chroma, or a string that is no colour; every kind of source     *)
(* colour; a second palette that is not affected; under the full gamut.        *)

HueTones == {35, 40, 50, 60}

\* The colours a tone may hold: the tone's number is its hue.
HueToneColors(tone) == { HexColor(ToneLightness(tone), c, tone) : c \in Chroma } \cup {BadHex}

\* Palettes over every subset of HueTones, the empty one included.
HuePalettes ==
    UNION { { pal \in [present -> UNION { HueToneColors(t) : t \in HueTones }] :
                \A t \in present : pal[t] \in HueToneColors(t) } :
            present \in SUBSET HueTones }

HueSourceColors == {NoColor, BadHex, HexColor(1, 0, 0), HexColor(1, MaxC, 4)}

HueRecords ==
    { [tonalPalettes |-> (primary :> pal) @@ (neutral :> DriftingPalette),
       schemes |-> [light |-> (primary :> HexColor(1, MaxC, 358))
                                 @@ (surface :> HexColor(1, MaxC, 358)),
                    dark |-> (surface :> HexColor(1, MaxC, 358))
                                 @@ (onPrimaryContainer :> HexColor(1, 1, 358))],
       sourceColors |-> IF sc.kind = "none" THEN <<>> ELSE (primary :> sc)] :
        pal \in HuePalettes, sc \in HueSourceColors }

InitHue ==
    /\ pc = "start"
    /\ gamut = FullGamut
    /\ colorScheme \in HueRecords
    /\ options = [preserveHue |-> TRUE, affectedPalettes |-> <<primary>>,
                  neutralHueFromPrimary |-> FALSE]
    /\ processedScheme = <<>>
    /\ paletteIndex = 0
    /\ result = <<>>
    /\ callerRecord = colorScheme
    /\ previous = NoCall
    /\ Standalone

SpecHue == InitHue /\ [][Next]_vars

(* SpecSearch: one tone away from the reference hue, which the source colour  *)
(* gives, under gamuts whose boundary takes every chroma of the grid at the   *)
(* hues around the reference hue; the record has no schemes.                  *)

\* Where the clamp returns no colour: nowhere, at the reference hue, one degree
\* below it, at every hue.
ClampFailures == {{}, {4}, {3}, 0..359}

SearchGamuts ==
    { [base |-> [l \in 1..(MaxL - 1) |-> b], spots |-> sp, noClamp |-> nc] :
        b \in Chroma, sp \in AtMostTwo(SpotHues, Chroma), nc \in ClampFailures }

\* A tone of the middle range and a tone outside it.
SearchTones == {40, 70}

SearchRecords ==
    { [tonalPalettes |-> (primary :> (tone :> HexColor(ToneLightness(tone), c, 358))),
       sourceColors |-> (primary :> HexColor(1, 1, 4))] :
        tone \in SearchTones, c \in 1..MaxC }

InitSearch ==
    /\ pc = "start"
    /\ gamut \in SearchGamuts
    /\ colorScheme \in SearchRecords
    /\ options = [preserveHue |-> TRUE, affectedPalettes |-> <<primary>>,
                  neutralHueFromPrimary |-> FALSE]
    /\ processedScheme = <<>>
    /\ paletteIndex = 0
    /\ result = <<>>
    /\ callerRecord = colorScheme
    /\ previous = NoCall
    /\ Standalone
    /\ AllDisplayable(colorScheme)

SpecSearch == InitSearch /\ [][Next]_vars

(***************************************************************************)
(* MaterialColorGenerator.generateStateLayers and the state layers of         *)
(* processExtendedColors.                                                     *)
(***************************************************************************)
\* STATE_LAYER_OPACITIES, in hundredths.
STATE_LAYER_OPACITIES ==
    [hover |-> 8, focus |-> 12, pressed |-> 12, dragged |-> 16, disabled |-> 12]

\* addOpacityToHex: the hex string followed by Math.round(opacity * 255) in two
\* hexadecimal digits; the alpha is kept as the number the digits write.
addOpacityToHex(hexColor, opacity) ==
    [kind |-> "hex with alpha", color |-> hexColor, alpha |-> (opacity * 255 + 50) \div 100]

\* The five states of one layer, over one colour.
LayerOver(hexColor) ==
    [state \in DOMAIN STATE_LAYER_OPACITIES |->
        addOpacityToHex(hexColor, STATE_LAYER_OPACITIES[state])]

\* generateStateLayers(colors): the layers of the four accent roles and the
\* surface layer, which is over onSurface.
generateStateLayers(colors) ==
    [layer \in {primary, secondary, tertiary, error, surface} |->
        LayerOver(colors[IF layer = surface THEN onSurface ELSE layer])]

\* processExtendedColors: the layer of an extended colour, over its main role.
WithExtendedLayers(stateLayers, colors, colorNames) ==
    [layer \in DOMAIN stateLayers \cup colorNames |->
        IF layer \in colorNames THEN LayerOver(colors[layer]) ELSE stateLayers[layer]]

\* The roles generateSchemeColors gives a colour to, as far as the layers and
\* the palettes below need them, and the palette each is drawn from.
LayerRoles == {primary, secondary, tertiary, error, onSurface}
LayerPalettes == {primary, secondary, tertiary, error, neutral}

\* The record generateColorScheme returns: schemes, stateLayers, tonalPalettes
\* and sourceColors (lines 74-85), with the extended colours named.
GeneratedRecord(lightColor, darkColor, colorNames, sourceHue) ==
    LET lightColors == [r \in LayerRoles \cup colorNames |-> lightColor]
        darkColors == [r \in LayerRoles \cup colorNames |-> darkColor]
    IN  [schemes |-> [light |-> lightColors, dark |-> darkColors],
         stateLayers |->
             [light |-> WithExtendedLayers(generateStateLayers(lightColors), lightColors,
                                           colorNames),
              dark |-> WithExtendedLayers(generateStateLayers(darkColors), darkColors,
                                          colorNames)],
         tonalPalettes |-> [p \in LayerPalettes \cup colorNames |-> DriftingPalette],
         sourceColors |-> [p \in LayerPalettes \cup colorNames |->
                              HexColor(1, MaxC, sourceHue)]]

(***************************************************************************)
(* SpecLayers: records as generateColorScheme returns them, state layers      *)
(* included, with and without an extended colour, handed on as               *)
(* regenerateWithExtendedColors does: every palette is affected, and with     *)
(* hue preservation off the record is the result as it is.                    *)
(***************************************************************************)
LayersRecords ==
    { GeneratedRecord(cl, cd, names, sh) :
        cl \in RoleColors, cd \in RoleColors, names \in {{}, {brandBlue}},
        sh \in HueSamples }

\* Object.keys(result.tonalPalettes): the core palettes in the order of
\* VALID_COLOR_ROLES, then the extended colours.
KeysOf(tonalPalettes) ==
    <<primary, secondary, tertiary, error, neutral>>
        \o (IF brandBlue \in DOMAIN tonalPalettes THEN <<brandBlue>> ELSE <<>>)

InitLayers ==
    /\ pc = "start"
    /\ gamut = FullGamut
    /\ colorScheme \in LayersRecords
    /\ options \in [preserveHue : BOOLEAN, affectedPalettes : {KeysOf(colorScheme.tonalPalettes)},
                    neutralHueFromPrimary : {FALSE}]
    /\ processedScheme = <<>>
    /\ paletteIndex = 0
    /\ result = <<>>
    /\ callerRecord = colorScheme
    /\ previous = NoCall
    /\ Standalone

SpecLayers == InitLayers /\ [][Next]_vars

(***************************************************************************)
(* SpecTwice: a palette of two tones away from the reference hue, each with   *)
(* any chroma, and the roles drawn from them, under the gamuts of SpecSearch  *)
(* in which the clamp always returns a colour; the record returned is handed  *)
(* to processColorScheme once more.                                           *)
(***************************************************************************)
TwiceGamuts == { g \in SearchGamuts : g.noClamp = {} }

TwiceRecords ==
    { [tonalPalettes |-> (primary :> [t \in SchemeTones |->
                                        HexColor(ToneLightness(t), chromaOf[t], 358)]),
       schemes |-> [light |-> (primary :> HexColor(ToneLightness(50), chromaOf[50], 358)),
                    dark |-> (primary :> HexColor(ToneLightness(90), chromaOf[90], 358))],
       sourceColors |-> (primary :> HexColor(1, 1, 4))] :
        chromaOf \in [SchemeTones -> 1..MaxC] }

InitTwice ==
    /\ pc = "start"
    /\ gamut \in TwiceGamuts
    /\ colorScheme \in TwiceRecords
    /\ options = [preserveHue |-> TRUE, affectedPalettes |-> <<primary>>,
                  neutralHueFromPrimary |-> FALSE]
    /\ processedScheme = <<>>
    /\ paletteIndex = 0
    /\ result = <<>>
    /\ callerRecord = colorScheme
    /\ previous = NoCall
    /\ Standalone
    /\ AllDisplayable(colorScheme)

SpecTwice == InitTwice /\ [][NextTwice]_vars

(***************************************************************************)
(* SpecTones: a palette whose tones differ in lightness, each with a hue of   *)
(* its own, absent, or a string that is no colour; roles at every lightness   *)
(* that has chroma; the palette affected or not; under the full gamut.        *)
(***************************************************************************)
\* Tones from the dark ones to the lightest (0, 5 ... 100 in the generator).
MatchTones == {20, 40, 70, 90, 100}

\* The colours a tone may hold: without chroma, or at full chroma with the tone's
\* number as its hue, or a string that is no colour.
MatchToneColors(tone) ==
    { h \in { HexColor(ToneLightness(tone), c, tone) : c \in {0, MaxC} } : Displayable(h) }
        \cup {BadHex}

MatchPalettes ==
    UNION { { pal \in [present -> UNION { MatchToneColors(t) : t \in MatchTones }] :
                \A t \in present : pal[t] \in MatchToneColors(t) } :
            present \in SUBSET MatchTones }

\* The colours of the roles drawn from the palette: every lightness with chroma.
MatchRoleColors == { HexColor(l, MaxC, 358) : l \in 1..(MaxL - 1) }

TonesRecords ==
    { [tonalPalettes |-> (primary :> pal) @@ (neutral :> DriftingPalette),
       schemes |-> [light |-> (primary :> rc) @@ (surface :> HexColor(1, MaxC, 358)),
                    dark |-> (surface :> HexColor(1, MaxC, 358))
                                 @@ (onPrimaryContainer :> rc)],
       sourceColors |-> sc] :
        pal \in MatchPalettes, rc \in MatchRoleColors,
        sc \in {<<>>, primary :> HexColor(1, MaxC, 4)} }

InitTones ==
    /\ pc = "start"
    /\ gamut = FullGamut
    /\ colorScheme \in TonesRecords
    /\ options \in [preserveHue : {TRUE}, affectedPalettes : {<<>>, <<primary>>},
                    neutralHueFromPrimary : {FALSE}]
    /\ processedScheme = <<>>
    /\ paletteIndex = 0
    /\ result = <<>>
    /\ callerRecord = colorScheme
    /\ previous = NoCall
    /\ Standalone

SpecTones == InitTones /\ [][Next]_vars

(***************************************************************************)
(* SpecNames: one palette under a core name or the name of an extended        *)
(* colour, the neutral palette, and in each scheme one of the role names      *)
(* built from the palette's name.                                             *)
(***************************************************************************)
\* Core palettes (schemePalettes) and palettes of extended colours (colorName).
CorePaletteNames == {primary, neutralVariant}
ExtendedPaletteNames == {brandBlue, surface, outline, onAir}

\* The first letter in upper case, as in onPrimary.
Capitalised(name) ==
    IF name = <<>> THEN <<>> ELSE <<UpperCaseChar(name[1])>> \o SubSeq(name, 2, Len(name))

\* The role names built from a palette name: the four that processExtendedColors
\* writes and the camel-case ones of generateSchemeColors.
RoleNamesOf(p) ==
    { p,
      OnSpacePrefix \o p,
      p \o SpaceContainerSuffix,
      OnSpacePrefix \o p \o SpaceContainerSuffix,
      <<"o", "n">> \o Capitalised(p),
      p \o ContainerSuffix,
      <<"o", "n">> \o Capitalised(p) \o ContainerSuffix }

NamesRecordsOf(p) ==
    { [tonalPalettes |-> (p :> DriftingPalette) @@ (neutral :> SteadyPalette),
       schemes |-> [light |-> (rl :> HexColor(MaxL - 1, MaxC, 358)),
                    dark |-> (rd :> HexColor(MaxL - 1, 1, 358))],
       sourceColors |-> (p :> HexColor(1, MaxC, 4))] :
        rl \in RoleNamesOf(p), rd \in RoleNamesOf(p) }

NamesRecords == UNION { NamesRecordsOf(p) : p \in CorePaletteNames \cup ExtendedPaletteNames }

InitNames ==
    /\ pc = "start"
    /\ gamut = FullGamut
    /\ colorScheme \in NamesRecords
    /\ options \in [preserveHue : {TRUE},
                    affectedPalettes : {<<>>} \cup { <<p>> : p \in DOMAIN colorScheme.tonalPalettes },
                    neutralHueFromPrimary : {FALSE}]
    /\ processedScheme = <<>>
    /\ paletteIndex = 0
    /\ result = <<>>
    /\ callerRecord = colorScheme
    /\ previous = NoCall
    /\ Standalone

SpecNames == InitNames /\ [][Next]_vars

---------------------------------------------------------------------------
(***************************************************************************)
(* MaterialColorGenerator.generateColorScheme, on the grid.  The colour       *)
(* library of the generator (material-color-utilities) is taken by what it    *)
(* is called for: a tonal palette holds, at every tone, the chroma it was     *)
(* built with, at the hue it was built with at tone 50 and ToneHueDrift       *)
(* degrees below it at the other tones (its hue is kept in HCT, not in        *)
(* OKLCH); Blend.harmonize turns the hue of a colour towards the seed's.      *)
(***************************************************************************)
VALID_COLOR_ROLES == <<primary, secondary, tertiary, error, neutral, neutralVariant>>

ToneHueDrift == 6
MaxHarmonizeRotation == 15

\* '#6750A4', the default of validateHexColor.
DefaultColor == HexColor(1, MaxC, 300)

\* validateHexColor: the colour if it is one, the default otherwise.
validateHexColor(color) == IF color.kind = "hex" THEN color ELSE DefaultColor

\* validateCustomColors: the valid roles that hold a colour.
validateCustomColors(customColors) ==
    [role \in { r \in DOMAIN customColors :
                  /\ \E i \in 1..Len(VALID_COLOR_ROLES) : VALID_COLOR_ROLES[i] = r
                  /\ customColors[r].kind = "hex" } |-> customColors[role]]

\* buildFromUI(colorSettings).
buildFromUI(colorSettings) ==
    [seedColor |-> validateHexColor(colorSettings.seedColor),
     customCoreColors |-> validateCustomColors(colorSettings.customCoreColors)]

\* Blend.harmonize(designColor, sourceColor): the design colour with its hue
\* turned towards the source's by half their distance, MaxHarmonizeRotation
\* degrees at the most.
harmonize(designColor, sourceColor) ==
    IF designColor.h = NoHue \/ sourceColor.h = NoHue
    THEN designColor
    ELSE LET distance == HueDistance(designColor.h, sourceColor.h)
             rotation == IF distance \div 2 < MaxHarmonizeRotation
                         THEN distance \div 2 ELSE MaxHarmonizeRotation
             direction == IF (sourceColor.h - designColor.h) % 360 <= 180 THEN 1 ELSE -1
         IN  HexColor(designColor.l, designColor.c,
                      (designColor.h + direction * rotation + 360) % 360)

\* Variant: the colour is left as it was typed.
NotHarmonized(designColor, sourceColor) == designColor

\* The tones of a palette built from a colour's hue and chroma
\* (TONAL_VALUES.forEach(tone => ... palette.tone(tone))).
TonesOf(color) ==
    [tone \in SchemeTones |->
        HexColor(ToneLightness(tone), color.c,
                 IF tone = 50 \/ color.h = NoHue THEN color.h
                 ELSE (color.h - ToneHueDrift + 360) % 360)]

\* createCustomDynamicScheme: the colour each core palette of the scheme is built
\* from, the custom colour of the role or else the seed (the variant's rules for
\* the chroma of a role are the library's: the neutral palettes get the
\* least chroma).
SchemePaletteColor(role, seedColor, customCoreColors) ==
    LET from == IF role \in DOMAIN customCoreColors THEN customCoreColors[role] ELSE seedColor
    IN  IF role \in {neutral, neutralVariant} THEN HexColor(from.l, 1, from.h) ELSE from

NameCharacters ==
    { LowerCaseLetters[i] : i \in 1..26 } \cup { UpperCaseLetters[i] : i \in 1..26 }
        \cup {"0", "1", "2", "3", "4", "5", "6", "7", "8", "9", "-", "_", " "}

IsLetter(ch) ==
    \E i \in 1..26 : LowerCaseLetters[i] = ch \/ UpperCaseLetters[i] = ch

\* s without its longest prefix, or suffix, of characters that satisfy Strip.
WithoutLeading(s, Strip(_)) ==
    LET kept == { i \in 1..Len(s) : ~Strip(s[i]) }
    IN  IF kept = {} THEN <<>>
        ELSE SubSeq(s, CHOOSE i \in kept : \A j \in kept : i <= j, Len(s))

WithoutTrailing(s, Strip(_)) ==
    LET kept == { i \in 1..Len(s) : ~Strip(s[i]) }
    IN  IF kept = {} THEN <<>>
        ELSE SubSeq(s, 1, CHOOSE i \in kept : \A j \in kept : i >= j)

IsSpace(ch) == ch = " "
IsNoLetter(ch) == ~IsLetter(ch)

trim(s) == WithoutTrailing(WithoutLeading(s, IsSpace), IsSpace)

\* sanitizeColorName: lower case, only letters, digits, hyphens, underscores and
\* spaces, no leading non-letters, trimmed.
sanitizeColorName(str) ==
    trim(WithoutLeading(SelectSeq(toLowerCase(str), LAMBDA ch : ch \in NameCharacters),
                        IsNoLetter))

\* The colour the palette of an extended colour is built from (lines 368-376).
ExtendedPaletteColor(extendedColor, seedColor) ==
    IF extendedColor.harmonize THEN harmonize(extendedColor.color, seedColor)
    ELSE extendedColor.color

\* The names under which the extended colours are kept, in the order of the list.
ExtendedNames(extendedColors) ==
    [i \in 1..Len(extendedColors) |-> sanitizeColorName(extendedColors[i].name)]

Range(s) == { s[i] : i \in 1..Len(s) }

\* The last extended colour of that name: a later entry overwrites an earlier one.
LastNamed(extendedColors, colorName) ==
    extendedColors[CHOOSE i \in 1..Len(extendedColors) :
                      /\ ExtendedNames(extendedColors)[i] = colorName
                      /\ \A j \in (i + 1)..Len(extendedColors) :
                            ExtendedNames(extendedColors)[j] # colorName]

\* generateTonalPalettes: the six palettes of the scheme, then one palette for
\* each extended colour.
generateTonalPalettes(seedColor, customCoreColors, extendedColors) ==
    [name \in Range(VALID_COLOR_ROLES) \cup Range(ExtendedNames(extendedColors)) |->
        IF name \in Range(ExtendedNames(extendedColors))
        THEN TonesOf(ExtendedPaletteColor(LastNamed(extendedColors, name), seedColor))
        ELSE TonesOf(SchemePaletteColor(name, seedColor, customCoreColors))]

\* generateSchemeColors for one mode, as far as the layers and the palettes need
\* the roles: each is the colour of its palette at the mode's tone.
generateSchemeColors(tonalPalettes, tone) ==
    [role \in LayerRoles |->
        tonalPalettes[IF role = onSurface THEN neutral ELSE role][tone]]

\* processExtendedColors, the roles: the main role of each extended colour, at
\* the mode's tone of its palette.
WithExtendedRoles(colors, tonalPalettes, colorNames, tone) ==
    [role \in DOMAIN colors \cup colorNames |->
        IF role \in colorNames THEN tonalPalettes[role][tone] ELSE colors[role]]

\* collectSourceColors: for a core palette the custom colour, else tone 50 of the
\* palette, else the seed; for an extended colour the colour of its entry.
collectSourceColors(seedColor, customCoreColors, extendedColors, tonalPalettes) ==
    [name \in Range(VALID_COLOR_ROLES) \cup Range(ExtendedNames(extendedColors)) |->
        IF name \in Range(ExtendedNames(extendedColors))
        THEN LastNamed(extendedColors, name).color
        ELSE IF name \in DOMAIN customCoreColors THEN customCoreColors[name]
        ELSE IF name \in DOMAIN tonalPalettes /\ 50 \in DOMAIN tonalPalettes[name]
        THEN tonalPalettes[name][50]
        ELSE seedColor]

\* generateColorScheme(parsedData, extendedColors), lines 39-86.
generateColorScheme(parsedData, extendedColors) ==
    LET seedColor == parsedData.seedColor
        customCoreColors == parsedData.customCoreColors
        tonalPalettes == generateTonalPalettes(seedColor, customCoreColors, extendedColors)
        colorNames == Range(ExtendedNames(extendedColors))
        lightColors == generateSchemeColors(tonalPalettes, 50)
        darkColors == generateSchemeColors(tonalPalettes, 90)
        lightWithExtended == WithExtendedRoles(lightColors, tonalPalettes, colorNames, 50)
        darkWithExtended == WithExtendedRoles(darkColors, tonalPalettes, colorNames, 90)
    IN  [schemes |-> [light |-> lightWithExtended, dark |-> darkWithExtended],
         stateLayers |->
             [light |-> WithExtendedLayers(generateStateLayers(lightColors),
                                           lightWithExtended, colorNames),
              dark |-> WithExtendedLayers(generateStateLayers(darkColors),
                                          darkWithExtended, colorNames)],
         tonalPalettes |-> tonalPalettes,
         sourceColors |-> collectSourceColors(seedColor, customCoreColors, extendedColors,
                                              tonalPalettes)]

\* Object.keys(tonalPalettes): the core palettes in the order they were written,
\* then the extended colours in the order of their first entry.
ObjectKeys(tonalPalettes, extendedColors) ==
    LET names == ExtendedNames(extendedColors)
    IN  VALID_COLOR_ROLES \o
        [k \in 1..Cardinality({ i \in 1..Len(names) : \A j \in 1..(i - 1) : names[j] # names[i] })
            |-> names[CHOOSE i \in 1..Len(names) :
                        /\ \A j \in 1..(i - 1) : names[j] # names[i]
                        /\ Cardinality({ m \in 1..i : \A j \in 1..(m - 1) : names[j] # names[m] }) = k]]
---------------------------------------------------------------------------
(***************************************************************************)
(* URLManager.  Strings that are split, joined or matched are sequences of    *)
(* characters.  A query is the function from the names of its parameters to   *)
(* their values: URLSearchParams writes and reads it back without loss, and   *)
(* that layer of percent-encoding is the platform's.  Time passes in ticks of *)
(* half a second, and a timer runs its callback when its delay is over.       *)
(***************************************************************************)
\* 1000 ms.
DebounceDelay == 2

MaxCalls == 3

DEFAULT_SEED_COLOR == <<"#", "6", "7", "5", "0", "A", "4">>
DEFAULT_STYLE == "TONAL_SPOT"
DEFAULT_SPEC == "SPEC_2025"

HexDigits ==
    {"0", "1", "2", "3", "4", "5", "6", "7", "8", "9",
     "a", "b", "c", "d", "e", "f", "A", "B", "C", "D", "E", "F"}

\* /^#[0-9A-Fa-f]{n}$/
IsHexOfLength(value, n) ==
    /\ Len(value) = n + 1
    /\ value[1] = "#"
    /\ \A i \in 2..Len(value) : value[i] \in HexDigits

\* The test of parseCore and parseExtended: /^#[0-9A-Fa-f]{6}$/.
IsSixDigitHex(value) == IsHexOfLength(value, 6)

\* validators.isValidHexColor: /^#([A-Fa-f0-9]{6}|[A-Fa-f0-9]{3})$/.
isValidHexColor(color) == IsHexOfLength(color, 6) \/ IsHexOfLength(color, 3)

RECURSIVE split(_, _)
\* String.prototype.split on one character.
split(s, separator) ==
    LET at == { i \in 1..Len(s) : s[i] = separator }
    IN  IF at = {} THEN <<s>>
        ELSE LET first == CHOOSE i \in at : \A j \in at : i <= j
             IN  <<SubSeq(s, 1, first - 1)>> \o split(SubSeq(s, first + 1, Len(s)), separator)

RECURSIVE join(_, _)
\* Array.prototype.join.
join(parts, separator) ==
    IF parts = <<>> THEN <<>>
    ELSE IF Len(parts) = 1 THEN parts[1]
    ELSE parts[1] \o <<separator>> \o join(Tail(parts), separator)

\* The characters encodeURIComponent leaves as they are.
Unreserved ==
    { LowerCaseLetters[i] : i \in 1..26 } \cup { UpperCaseLetters[i] : i \in 1..26 }
        \cup {"0", "1", "2", "3", "4", "5", "6", "7", "8", "9",
              "-", "_", ".", "!", "~", "*", "'", "(", ")"}

\* The two hexadecimal digits of the other characters names are typed with.
PercentCodes ==
    (" " :> <<"2", "0">>) @@ ("#" :> <<"2", "3">>) @@ ("%" :> <<"2", "5">>)
        @@ ("," :> <<"2", "C">>) @@ (":" :> <<"3", "A">>)

RECURSIVE encodeURIComponent(_)
encodeURIComponent(s) ==
    IF s = <<>> THEN <<>>
    ELSE (IF s[1] \in Unreserved THEN <<s[1]>> ELSE <<"%">> \o PercentCodes[s[1]])
            \o encodeURIComponent(Tail(s))

RECURSIVE decodeURIComponent(_)
\* A "%" and the two digits after it stand for one character; a "%" that is not
\* followed by the digits of a character is a URIError, kept as it is here.
decodeURIComponent(s) ==
    IF s = <<>> THEN <<>>
    ELSE IF /\ s[1] = "%"
            /\ Len(s) >= 3
            /\ \E ch \in DOMAIN PercentCodes : PercentCodes[ch] = SubSeq(s, 2, 3)
    THEN <<CHOOSE ch \in DOMAIN PercentCodes : PercentCodes[ch] = SubSeq(s, 2, 3)>>
            \o decodeURIComponent(SubSeq(s, 4, Len(s)))
    ELSE <<s[1]>> \o decodeURIComponent(Tail(s))

\* Object.entries(settings.customCoreColors), the keys in the order of the roles.
EntriesOf(customCoreColors) ==
    SelectSeq(VALID_COLOR_ROLES, LAMBDA key : key \in DOMAIN customCoreColors)

\* Lines 45-48: `${k}:${v}` of every entry, joined by commas.
CoreParam(customCoreColors) ==
    join([i \in 1..Len(EntriesOf(customCoreColors)) |->
              EntriesOf(customCoreColors)[i] \o <<":">>
                  \o customCoreColors[EntriesOf(customCoreColors)[i]]],
         ",")

\* Lines 51-54: `${encodeURIComponent(c.name)}:${c.color}:${c.harmonize ? '1' : '0'}`.
ExtendedParam(extendedColors) ==
    join([i \in 1..Len(extendedColors) |->
              encodeURIComponent(extendedColors[i].name) \o <<":">>
                  \o extendedColors[i].color \o <<":">>
                  \o (IF extendedColors[i].harmonize THEN <<"1">> ELSE <<"0">>)],
         ",")

\* The parameters of a query that holds `first`, then `second`.
Merged(first, second) ==
    [name \in DOMAIN first \cup DOMAIN second |->
        IF name \in DOMAIN second THEN second[name] ELSE first[name]]

\* Lines 37-64: the query the callback of updateURL builds.
QueryOf(appSettings) ==
    LET exp == appSettings.exportSettings
        basic ==
            Merged(Merged(IF appSettings.seedColor # <<>>
                             /\ appSettings.seedColor # DEFAULT_SEED_COLOR
                          THEN "seed" :> appSettings.seedColor ELSE NoParams,
                          IF appSettings.style # DEFAULT_STYLE
                          THEN "style" :> appSettings.style ELSE NoParams),
                   IF appSettings.colorSpec # DEFAULT_SPEC
                   THEN "spec" :> appSettings.colorSpec ELSE NoParams)
        core == IF DOMAIN appSettings.customCoreColors # {}
                THEN "core" :> CoreParam(appSettings.customCoreColors) ELSE NoParams
        extended == IF Len(appSettings.extendedColors) > 0
                    THEN "extended" :> ExtendedParam(appSettings.extendedColors)
                    ELSE NoParams
        export == [format |-> exp.namingFormat,
                   collection |-> exp.collectionName,
                   stateLayers |-> IF exp.stateLayersEnabled THEN "1" ELSE "0",
                   tonalPalettes |-> IF exp.tonalPalettesEnabled THEN "1" ELSE "0",
                   w3c |-> IF exp.w3cFormatEnabled THEN "1" ELSE "0"]
    IN  Merged(Merged(Merged(basic, core), extended), export)

\* A URL: the empty string, or "?" and a query.
UrlOf(params) == [empty |-> FALSE, params |-> params]

\* params.get(name): the value, or null.
HasParam(url, name) == name \in DOMAIN url.params /\ url.params[name] # <<>>

\* null, and an object, as parseCore returns them.
NullObject == [isNull |-> TRUE, entries |-> NoParams]
ObjectOf(entries) == [isNull |-> FALSE, entries |-> entries]

\* parseCore: the pairs key:value whose value is a colour of six digits; null when
\* there is none.
parseCoreWith(param, Valid(_)) ==
    LET pairs == [i \in 1..Len(split(param, ",")) |-> split(split(param, ",")[i], ":")]
        valid == { i \in 1..Len(pairs) :
                     /\ Len(pairs[i]) >= 2
                     /\ pairs[i][1] # <<>>
                     /\ pairs[i][2] # <<>>
                     /\ Valid(pairs[i][2]) }
        keys == { pairs[i][1] : i \in valid }
        entries == [key \in keys |->
                       pairs[CHOOSE i \in valid :
                                /\ pairs[i][1] = key
                                /\ \A j \in valid : pairs[j][1] = key => j <= i][2]]
    IN  IF keys = {} THEN NullObject ELSE ObjectOf(entries)

parseCore(param) == parseCoreWith(param, IsSixDigitHex)

\* parseExtended: of every part name:value:flag with a name and a colour of six
\* digits, the decoded name, the colour and whether the flag is '1'.
parseExtendedWith(param, Valid(_)) ==
    LET parts == [i \in 1..Len(split(param, ",")) |-> split(split(param, ",")[i], ":")]
        parsed == [i \in 1..Len(parts) |->
                      IF Len(parts[i]) < 3
                      THEN [name |-> <<>>, color |-> <<>>, harmonize |-> FALSE]
                      ELSE [name |-> join(SubSeq(parts[i], 1, Len(parts[i]) - 2), ":"),
                            color |-> parts[i][Len(parts[i]) - 1],
                            harmonize |-> parts[i][Len(parts[i])] = <<"1">>]]
        kept == SelectSeq(parsed, LAMBDA entry :
                              entry.name # <<>> /\ entry.color # <<>> /\ Valid(entry.color))
    IN  [i \in 1..Len(kept) |-> [kept[i] EXCEPT !.name = decodeURIComponent(kept[i].name)]]

parseExtended(param) == parseExtendedWith(param, IsSixDigitHex)

\* getSettingsFromURL, as far as the colours go.
getSettingsFromURL(url) ==
    [seedColor |-> IF HasParam(url, "seed") THEN url.params["seed"] ELSE <<>>,
     customCoreColors |-> IF HasParam(url, "core") THEN parseCore(url.params["core"])
                          ELSE NullObject,
     extendedColors |-> IF HasParam(url, "extended")
                        THEN parseExtended(url.params["extended"]) ELSE <<>>]

\* Variant of clearTimeout: the timer stays in the table.
NotCleared(timerTable, handle) == timerTable

\* clearTimeout(handle): the timer leaves the browser's table.
clearTimeout(timerTable, handle) == { timer \in timerTable : timer.handle # handle }

\* Lines 35-36 and 71: the pending timer is cleared and a new one is set.
TimersAfterUpdateURL(timerTable, oldHandle, newHandle, appSettings) ==
    clearTimeout(timerTable, oldHandle)
        \cup {[handle |-> newHandle, settings |-> appSettings, elapsed |-> 0]}

Pending(timerTable, handle) == { timer.handle : timer \in { t \in timerTable : t.handle = handle } }

\* The state after updateURL(appSettings) was called `count` times in a row (one
\* call, or two as at the end of regenerateWithExtendedColors).
UpdateURLCalls(appSettings, count) ==
    LET first == urlHistory.calls + 1
        last == urlHistory.calls + count
        afterFirst == TimersAfterUpdateURL(browser.timers, urlManager.debounceTimeout, first,
                                           appSettings)
    IN  /\ urlManager' = [urlManager EXCEPT !.debounceTimeout = last]
        /\ browser' = [browser EXCEPT !.timers =
                          IF count = 1 THEN afterFirst
                          ELSE TimersAfterUpdateURL(afterFirst, first, last, appSettings)]
        /\ urlHistory' = [urlHistory EXCEPT
                             !.calls = last,
                             !.sinceLastCall = 0,
                             !.lastPassed = <<appSettings>>,
                             !.superseded =
                                 @ \cup Pending(browser.timers, urlManager.debounceTimeout)
                                   \cup (first..(last - 1))]

\* The processor and the handlers of MaterialColorApp, which the URL manager
\* does not touch.
generation == <<pc, colorScheme, callerRecord, options, processedScheme, paletteIndex, result,
                gamut, previous, microtasks, resumed, originalResult, displayed, lastRead,
                triggers, storedFrom, w3cResult, coreColorsManager, coreColorsDOM>>

\* updateURL(settings), called with what the page holds.
UpdateURL ==
    /\ urlHistory.calls < MaxCalls
    /\ UpdateURLCalls(settings, 1)
    /\ UNCHANGED <<generation, settings, restored>>

\* Half a second passes; no timer is kept waiting beyond its delay.
Tick ==
    /\ \A timer \in browser.timers : timer.elapsed < DebounceDelay
    /\ browser' = [browser EXCEPT !.timers =
                      { [timer EXCEPT !.elapsed = @ + 1] : timer \in browser.timers }]
    /\ urlHistory' = [urlHistory EXCEPT !.sinceLastCall =
                         IF @ > DebounceDelay THEN @ ELSE @ + 1]
    /\ urlHistory.sinceLastCall <= DebounceDelay
    /\ UNCHANGED <<generation, settings, urlManager, restored>>

\* Lines 36-70: the callback of a timer whose delay is over.
TimerFires ==
    \E timer \in browser.timers :
        /\ timer.elapsed = DebounceDelay
        /\ LET newUrl == UrlOf(QueryOf(timer.settings))
           IN  /\ browser' = [timers |-> browser.timers \ {timer},
                              location |-> IF newUrl # urlManager.lastUrl THEN newUrl
                                           ELSE browser.location]
               /\ urlManager' = [urlManager EXCEPT !.lastUrl = newUrl]
        /\ urlHistory' = [urlHistory EXCEPT !.ran = @ \cup {timer.handle}]
        /\ UNCHANGED <<generation, settings, restored>>

\* getSettingsFromURL on the page as it is, with what the latest call passed.
ReadBack ==
    /\ urlHistory.calls > 0
    /\ browser.timers = {}
    /\ restored = <<>>
    /\ restored' = <<[passed |-> urlHistory.lastPassed[1],
                      read |-> getSettingsFromURL(browser.location)]>>
    /\ UNCHANGED <<generation, settings, urlManager, browser, urlHistory>>

---------------------------------------------------------------------------
(***************************************************************************)
(* MaterialColorApp.regenerateWithExtendedColors.  An async function runs up  *)
(* to its await in the turn of its caller; what follows the await is a        *)
(* microtask, and microtasks run one at a time, to their end, in the order     *)
(* they were queued.  generateColorScheme awaits nothing, so its promise is   *)
(* settled when it returns, and processColorScheme is an ordinary call:       *)
(* while pc is not "idle" the continuation that called it is running.         *)
(***************************************************************************)
MaxTriggers == 2

\* ExtendedColorsManager.getExtendedColors: the rows with a name and a valid
\* colour, the name trimmed.
getExtendedColors(rows) ==
    LET named == [i \in 1..Len(rows) |-> [rows[i] EXCEPT !.name = trim(rows[i].name)]]
    IN  SelectSeq(named, LAMBDA row : row.name # <<>> /\ row.color.kind = "hex")

\* Variant: the continuations run in any order, here the youngest first.
YoungestFirst(queue) == Len(queue)

\* The microtask that runs next: the oldest.
NextToRun(queue) == 1

WithoutIndex(queue, i) == SubSeq(queue, 1, i - 1) \o SubSeq(queue, i + 1, Len(queue))

\* The text the output element shows for a stored result (displayResult at the
\* end of updateResultFormat).
FormattedText(originalResultObject) == <<"formatted", originalResultObject>>

\* The user changes what the inputs hold.
ChangeSettings(samples) ==
    /\ pc = "idle"
    /\ settings' \in samples \ {settings}
    /\ UNCHANGED <<pc, colorScheme, callerRecord, options, processedScheme, paletteIndex,
                   result, gamut, previous, microtasks, resumed, originalResult, displayed,
                   lastRead, triggers, storedFrom, w3cResult, coreColorsManager,
                   coreColorsDOM, urlState>>

\* Lines 128-143: the settings are read and the scheme is generated; the rest of
\* the handler waits behind the await.
Trigger ==
    /\ pc = "idle"
    /\ triggers < MaxTriggers
    /\ LET colorSettings == settings
           extendedColors == getExtendedColors(settings.extendedColors)
           parsedData == buildFromUI(colorSettings)
       IN  microtasks' = Append(microtasks,
                                [trigger |-> triggers + 1,
                                 colorSettings |-> colorSettings,
                                 extendedColors |-> extendedColors,
                                 result |-> generateColorScheme(parsedData, extendedColors)])
    /\ lastRead' = settings
    /\ triggers' = triggers + 1
    /\ UNCHANGED <<pc, colorScheme, callerRecord, options, processedScheme, paletteIndex,
                   result, gamut, previous, settings, resumed, originalResult, displayed,
                   storedFrom, w3cResult, coreColorsManager,
                   coreColorsDOM, urlState>>

\* Lines 143-159: the handler goes on behind its await, and with preserveHue on
\* it hands the record and the names of all its palettes to processColorScheme.
Resume ==
    /\ pc = "idle"
    /\ microtasks # <<>>
    /\ LET task == microtasks[NextToRun(microtasks)]
       IN  /\ resumed' = task
           /\ microtasks' = WithoutIndex(microtasks, NextToRun(microtasks))
           /\ colorScheme' = task.result
           /\ callerRecord' = task.result
           /\ processedScheme' = <<>>
           /\ paletteIndex' = 0
           /\ IF task.colorSettings.preserveHue /\ "tonalPalettes" \in DOMAIN task.result
              THEN /\ pc' = "start"
                   /\ options' = [preserveHue |-> TRUE,
                                  affectedPalettes |->
                                      ObjectKeys(task.result.tonalPalettes, task.extendedColors),
                                  neutralHueFromPrimary |-> FALSE]
                   /\ result' = <<>>
              ELSE /\ pc' = "done"
                   /\ result' = task.result
                   /\ UNCHANGED options
    /\ UNCHANGED <<gamut, previous, settings, originalResult, displayed, lastRead, triggers,
                   storedFrom, w3cResult, coreColorsManager,
                   coreColorsDOM, urlState>>

\* Lines 161-171: the result is stored as the original result and displayed in
\* the current format, and updateURL is called with what the page holds, by
\* updateResultFormat and again by the handler; an error thrown on the way is
\* logged and nothing is stored.
Finish ==
    /\ pc \in {"done", "threw"}
    /\ pc' = "idle"
    /\ resumed' = NoTask
    /\ IF pc = "done"
       THEN /\ originalResult' = result
            /\ displayed' = FormattedText(result)
            /\ storedFrom' = resumed.trigger
            /\ UpdateURLCalls(settings, 2)
       ELSE UNCHANGED <<originalResult, displayed, storedFrom, urlManager, browser, urlHistory>>
    /\ UNCHANGED <<colorScheme, callerRecord, options, processedScheme, paletteIndex, result,
                   gamut, previous, settings, microtasks, lastRead, triggers, restored, w3cResult,
                   coreColorsManager, coreColorsDOM>>

(***************************************************************************)
(* SpecSource: one set of inputs, any of the samples, and the handler         *)
(* triggered on it.                                                           *)
(***************************************************************************)
typedBrandBlue == <<"2", " ", "B", "r", "a", "n", "d", " ", "B", "l", "u", "e", "!", " ">>

ExtendedRows ==
    { [name |-> n, color |-> c, harmonize |-> hz] :
        n \in {typedBrandBlue, <<" ">>},
        c \in {HexColor(1, MaxC, 358), HexColor(1, MaxC, 100), BadHex},
        hz \in BOOLEAN }

SourceSettings ==
    [seedColor : {HexColor(1, MaxC, 4), HexColor(1, MaxC, 40), BadHex},
     customCoreColors : {<<>>, primary :> HexColor(1, MaxC, 100)},
     extendedColors : {<<>>} \cup { <<row>> : row \in ExtendedRows },
     preserveHue : BOOLEAN]

\* The page before the first trigger, with the inputs holding one of `samples`.
PageLoaded(samples) ==
    /\ pc = "idle"
    /\ gamut = FullGamut
    /\ colorScheme = <<>>
    /\ callerRecord = <<>>
    /\ options = [preserveHue |-> FALSE, affectedPalettes |-> <<>>,
                  neutralHueFromPrimary |-> FALSE]
    /\ processedScheme = <<>>
    /\ paletteIndex = 0
    /\ result = <<>>
    /\ previous = NoCall
    /\ settings \in samples
    /\ microtasks = <<>>
    /\ resumed = NoTask
    /\ originalResult = Null
    /\ displayed = Null
    /\ lastRead = NoSettings
    /\ triggers = 0
    /\ storedFrom = 0
    /\ w3cResult = <<>>
    /\ NewCoreColorsManager
    /\ NewURLManager

InitSource == PageLoaded(SourceSettings)

NextSource == Trigger \/ Resume \/ Next \/ Finish

SpecSource == InitSource /\ [][NextSource]_vars

(***************************************************************************)
(* SpecApp: the inputs change between the triggers.                           *)
(***************************************************************************)
AppSettings ==
    [seedColor : {HexColor(1, MaxC, 4), HexColor(1, MaxC, 40)},
     customCoreColors : {<<>>},
     extendedColors : {<< [name |-> typedBrandBlue, color |-> HexColor(1, MaxC, 358),
                           harmonize |-> TRUE] >>},
     preserveHue : BOOLEAN]

InitApp == PageLoaded(AppSettings)

NextApp == ChangeSettings(AppSettings) \/ Trigger \/ Resume \/ Next \/ Finish

SpecApp == InitApp /\ [][NextApp]_vars

---------------------------------------------------------------------------
(***************************************************************************)
(* W3cDtcgConverter.convertToW3cDtcgFormat and the W3C branch of              *)
(* MaterialColorApp.updateResultFormat.                                       *)
(***************************************************************************)
\* The names of the states of a layer, as the keys of the record spell them.
StateNames ==
    [hover |-> <<"h", "o", "v", "e", "r">>,
     focus |-> <<"f", "o", "c", "u", "s">>,
     pressed |-> <<"p", "r", "e", "s", "s", "e", "d">>,
     dragged |-> <<"d", "r", "a", "g", "g", "e", "d">>,
     disabled |-> <<"d", "i", "s", "a", "b", "l", "e", "d">>]

Digits == <<"0", "1", "2", "3", "4", "5", "6", "7", "8", "9">>

RECURSIVE NumberString(_)
\* String(n) of a natural number.
NumberString(n) ==
    IF n < 10 THEN <<Digits[n + 1]>> ELSE NumberString(n \div 10) \o <<Digits[(n % 10) + 1]>>

\* ColorUtils.hexToRgba: the alpha of the two last digits in hundredths,
\* Math.round(a / 255 * 100).
hexToRgba(hex) ==
    [kind |-> "rgba", color |-> hex.color, alpha |-> (hex.alpha * 200 + 255) \div 510]

\* ColorUtils.convertToDesignTokenColor: rgba() for a hex string of eight digits,
\* the string as it is otherwise.
convertToDesignTokenColor(color) ==
    IF color.kind = "hex with alpha" THEN hexToRgba(color) ELSE color

\* variableName.split(' ', 2): the first two of the parts between spaces.
SplitInTwo(variableName) ==
    LET parts == split(variableName, " ")
    IN  IF Len(parts) <= 2 THEN parts ELSE SubSeq(parts, 1, 2)

\* layers[colorType]?.[stateType], for the two strings a variable name was split
\* into: the entry, or nothing.
LayerEntry(layers, nameParts) ==
    IF /\ Len(nameParts) = 2
       /\ nameParts[1] \in DOMAIN layers
       /\ \E state \in DOMAIN layers[nameParts[1]] : StateNames[state] = nameParts[2]
    THEN <<layers[nameParts[1]][CHOOSE state \in DOMAIN layers[nameParts[1]] :
                                    StateNames[state] = nameParts[2]]>>
    ELSE <<>>

\* The names `${colorType} ${stateType}` of the entries of one mode.
LayerVariables(layers) ==
    UNION { { colorType \o <<" ">> \o StateNames[stateType] :
                stateType \in DOMAIN layers[colorType] } : colorType \in DOMAIN layers }

\* Lines 50-87: the State Layers group.
StateLayerTokens(stateLayers) ==
    [variableName \in LayerVariables(stateLayers.light) \cup LayerVariables(stateLayers.dark) |->
        LET light == LayerEntry(stateLayers.light, SplitInTwo(variableName))
            dark == LayerEntry(stateLayers.dark, SplitInTwo(variableName))
        IN  [type |-> "color",
             value |-> (IF light # <<>> THEN "Light" :> convertToDesignTokenColor(light[1])
                        ELSE NoParams)
                       @@ (IF dark # <<>> THEN "Dark" :> convertToDesignTokenColor(dark[1])
                           ELSE NoParams)]]

\* Lines 24-48: the Schemes group.
SchemeTokens(schemes) ==
    [colorName \in DOMAIN schemes.light \cup DOMAIN schemes.dark |->
        [type |-> "color",
         value |-> (IF colorName \in DOMAIN schemes.light
                    THEN "Light" :> convertToDesignTokenColor(schemes.light[colorName])
                    ELSE NoParams)
                   @@ (IF colorName \in DOMAIN schemes.dark
                       THEN "Dark" :> convertToDesignTokenColor(schemes.dark[colorName])
                       ELSE NoParams)]]

\* Lines 89-104: the Tonal Palettes group.
PaletteTokens(tonalPalettes) ==
    [variableName \in { paletteName \o <<" ">> \o NumberString(tone) :
                          paletteName \in DOMAIN tonalPalettes, tone \in SchemeTones } |->
        LET paletteName == CHOOSE p \in DOMAIN tonalPalettes :
                               \E tone \in DOMAIN tonalPalettes[p] :
                                   variableName = p \o <<" ">> \o NumberString(tone)
            tone == CHOOSE t \in DOMAIN tonalPalettes[paletteName] :
                        variableName = paletteName \o <<" ">> \o NumberString(t)
        IN  [type |-> "color",
             value |-> convertToDesignTokenColor(tonalPalettes[paletteName][tone])]]

\* convertToW3cDtcgFormat(standardJson, collectionName): the groups under the
\* collection's name.
convertToW3cDtcgFormat(standardJson) ==
    [group \in { g \in {"Schemes", "State Layers", "Tonal Palettes"} :
                   \/ g = "Schemes" /\ "schemes" \in DOMAIN standardJson
                   \/ g = "State Layers" /\ "stateLayers" \in DOMAIN standardJson
                   \/ g = "Tonal Palettes" /\ "tonalPalettes" \in DOMAIN standardJson } |->
        IF group = "Schemes" THEN SchemeTokens(standardJson.schemes)
        ELSE IF group = "State Layers" THEN StateLayerTokens(standardJson.stateLayers)
        ELSE PaletteTokens(standardJson.tonalPalettes)]

\* FormatUtils.applyFormatOptions: the state layers are left out when their
\* toggle is off (the palettes toggle deletes a field the record does not have).
applyFormatOptions(resultObject, includeStateLayers) ==
    [field \in DOMAIN resultObject \ (IF includeStateLayers THEN {} ELSE {"stateLayers"}) |->
        resultObject[field]]

\* updateResultFormat with the W3C toggle on (lines 177-220): the stored result is
\* filtered, converted and displayed, and updateURL is called.
UpdateResultFormat ==
    /\ pc = "idle"
    /\ storedFrom > 0
    /\ urlHistory.calls < 2 * MaxTriggers + MaxCalls
    /\ \E includeStateLayers \in BOOLEAN :
          w3cResult' = <<convertToW3cDtcgFormat(
                             applyFormatOptions(originalResult, includeStateLayers))>>
    /\ displayed' = FormattedText(w3cResult')
    /\ UpdateURLCalls(settings, 1)
    /\ UNCHANGED <<pc, colorScheme, callerRecord, options, processedScheme, paletteIndex,
                   result, gamut, previous, settings, microtasks, resumed, originalResult,
                   lastRead, triggers, storedFrom, restored, coreColorsManager,
                   coreColorsDOM>>

(***************************************************************************)
(* SpecTokens: a scheme is generated with an extended colour whose name has   *)
(* one word or two, and displayed as W3C design tokens.                       *)
(***************************************************************************)
typedWarning == <<"W", "a", "r", "n", "i", "n", "g">>

TokenSettings ==
    [seedColor : {HexColor(1, MaxC, 4)},
     customCoreColors : {<<>>},
     extendedColors : {<<>>}
        \cup { << [name |-> n, color |-> HexColor(1, MaxC, 100), harmonize |-> FALSE] >> :
                 n \in {typedBrandBlue, typedWarning} },
     preserveHue : BOOLEAN]

InitTokens == PageLoaded(TokenSettings)

NextTokens == Trigger \/ Resume \/ Next \/ Finish \/ UpdateResultFormat

SpecTokens == InitTokens /\ [][NextTokens]_vars

---------------------------------------------------------------------------
(***************************************************************************)
(* CoreColorsManager and UIManager.handlePrimaryAsNewSeed.  The handlers work *)
(* on the manager's fields and on the elements of the page, taken together as *)
(* one record: customCoreColors, resetDisabled, hexInput, seedColorInput.     *)
(***************************************************************************)
CoreColorsUI ==
    [customCoreColors |-> coreColorsManager.customCoreColors,
     resetDisabled |-> coreColorsDOM.resetDisabled,
     hexInput |-> coreColorsDOM.hexInput,
     seedColorInput |-> coreColorsDOM.seedColorInput]

\* delete object[key]
Deleted(object, key) == [k \in DOMAIN object \ {key} |-> object[k]]

\* object[key] = value
Assigned(object, key, value) ==
    [k \in DOMAIN object \cup {key} |-> IF k = key THEN value ELSE object[k]]

\* updateResetButtonState(colorKey), lines 192-198.
updateResetButtonState(ui, colorKey) ==
    [ui EXCEPT !.resetDisabled[colorKey] = ~(colorKey \in DOMAIN ui.customCoreColors)]

\* updateDefaultCoreColors(defaultColors), lines 210-248: the input of every
\* colour that is not customized shows its default; the flag is set meanwhile
\* and reset at the end.
updateDefaultCoreColors(ui, defaultColors) ==
    [ui EXCEPT !.hexInput =
        [key \in DOMAIN ui.hexInput |->
            IF /\ key \in DOMAIN defaultColors
               /\ isValidHexColor(defaultColors[key])
               /\ key \notin DOMAIN ui.customCoreColors
            THEN defaultColors[key]
            ELSE ui.hexInput[key]]]

\* this.onGenerate, as far as it reaches the core colours before its await:
\* regenerateWithExtendedColors calls updateDefaultCoreColors (part_006 140).
onGenerate(ui, defaultColors) == updateDefaultCoreColors(ui, defaultColors)

\* clearOtherCustomCoreColors, lines 253-261.
clearOtherCustomCoreColors(ui) ==
    LET otherCoreColors == {secondary, tertiary, error, neutral, neutralVariant}
        cleared == otherCoreColors \cap DOMAIN ui.customCoreColors
        remaining == [k \in DOMAIN ui.customCoreColors \ cleared |-> ui.customCoreColors[k]]
    IN  [ui EXCEPT !.customCoreColors = remaining,
                   !.resetDisabled = [key \in DOMAIN ui.resetDisabled |->
                                         IF key \in cleared THEN ~(key \in DOMAIN remaining)
                                         ELSE ui.resetDisabled[key]]]

\* UIManager.handlePrimaryAsNewSeed(primaryColor), part_015 241-263.
handlePrimaryAsNewSeed(ui, primaryColor, defaultColors) ==
    onGenerate(clearOtherCustomCoreColors([ui EXCEPT !.seedColorInput = primaryColor]),
               defaultColors)

\* updateCustomCoreColor(colorKey, color), lines 130-145; onPrimaryChange is the
\* callback UIManager installs (part_015 88-90).
updateCustomCoreColor(ui, colorKey, color, defaultColors) ==
    IF isValidHexColor(color)
    THEN LET set == [ui EXCEPT !.customCoreColors = Assigned(ui.customCoreColors, colorKey, color)]
         IN  IF colorKey = primary
             THEN handlePrimaryAsNewSeed(set, color, defaultColors)
             ELSE onGenerate(updateResetButtonState(set, colorKey), defaultColors)
    ELSE onGenerate(updateResetButtonState(
                        [ui EXCEPT !.customCoreColors = Deleted(ui.customCoreColors, colorKey)],
                        colorKey),
                    defaultColors)

\* resetCoreColor(colorKey), lines 157-187.
resetCoreColor(ui, colorKey, defaultColors) ==
    onGenerate(updateResetButtonState(
                   [ui EXCEPT !.customCoreColors = Deleted(ui.customCoreColors, colorKey),
                              !.hexInput[colorKey] = <<>>],
                   colorKey),
               defaultColors)

\* The listener of the hex input (lines 88-99).
HexInputListener(ui, colorKey, defaultColors) ==
    LET color == trim(ui.hexInput[colorKey])
    IN  IF isValidHexColor(color) THEN updateCustomCoreColor(ui, colorKey, color, defaultColors)
        ELSE IF color = <<>> THEN resetCoreColor(ui, colorKey, defaultColors)
        ELSE ui

\* The onChange the colour picker is set up with (lines 110-118).
onChange(ui, colorKey, defaultColors) ==
    LET color == trim(ui.hexInput[colorKey])
    IN  IF isValidHexColor(color) THEN updateCustomCoreColor(ui, colorKey, color, defaultColors)
        ELSE ui

\* The listener ColorPickerManager.bindColorInputEvents adds to the same input
\* (part_015 463-488).
ColorInputListener(ui, colorKey, defaultColors) ==
    IF isValidHexColor(ui.hexInput[colorKey]) THEN onChange(ui, colorKey, defaultColors) ELSE ui

\* setCustomCoreColors(customCoreColors), lines 266-287; null stands for a
\* configuration without custom colours.
setCustomCoreColors(ui, configuration) ==
    IF configuration.isNull THEN ui
    ELSE LET valid == { key \in DOMAIN configuration.entries :
                          isValidHexColor(configuration.entries[key]) }
             custom == [key \in valid |-> configuration.entries[key]]
         IN  [ui EXCEPT !.customCoreColors = custom,
                        !.hexInput = [key \in DOMAIN ui.hexInput |->
                                         IF key \in valid THEN custom[key] ELSE ui.hexInput[key]],
                        !.resetDisabled = [key \in DOMAIN ui.resetDisabled |->
                                              IF key \in valid THEN ~(key \in DOMAIN custom)
                                              ELSE ui.resetDisabled[key]]]

\* What a handler leaves behind.
CoreColorsBecome(ui) ==
    /\ coreColorsManager' = [customCoreColors |-> ui.customCoreColors,
                             programmaticUpdate |-> FALSE]
    /\ coreColorsDOM' = [resetDisabled |-> ui.resetDisabled, hexInput |-> ui.hexInput,
                         seedColorInput |-> ui.seedColorInput]

\* The rest of the page, which the core colour handlers reach only through
\* the regeneration they ask for.
page == <<pc, colorScheme, callerRecord, options, processedScheme, paletteIndex, result,
          gamut, previous, settings, microtasks, resumed, originalResult, displayed, lastRead,
          triggers, storedFrom, w3cResult, urlState>>

\* The keys the user works on, what is typed and picked, the defaults
\* getDefaultCoreColors returns and the configurations restored.
SampledKeys == {primary, secondary, error}

TypedTexts == {<<"#", "a", "1", "B", "2", "c", "3">>, <<>>, <<"#", "a", "1", "B", "2">>}

PickedColors == {<<"#", "a", "1", "b", "2", "c", "3">>}

DefaultColorSamples ==
    { [key \in CoreColorKeys |-> <<"#", "6", "2", "5", "b", "7", "1">>] }

Configurations ==
    {NullObject}
    \cup { [isNull |-> FALSE, entries |-> [key \in keys |-> <<"#", "a", "1", "B", "2", "c", "3">>]] :
             keys \in SUBSET SampledKeys }
    \cup { [isNull |-> FALSE, entries |-> secondary :> <<"#", "a", "1", "B", "2">>] }

\* The user types into the hex input of a core colour: both listeners of the
\* input run, the manager's first.
TypeHex ==
    \E colorKey \in SampledKeys, text \in TypedTexts, defaultColors \in DefaultColorSamples :
        /\ CoreColorsBecome(
               ColorInputListener(
                   HexInputListener([CoreColorsUI EXCEPT !.hexInput[colorKey] = text],
                                    colorKey, defaultColors),
                   colorKey, defaultColors))
        /\ UNCHANGED page

\* The user picks a colour: the picker's color-changed listener writes it to
\* the input and calls onChange (part_015 438-442).
PickColor ==
    \E colorKey \in SampledKeys, color \in PickedColors, defaultColors \in DefaultColorSamples :
        /\ CoreColorsBecome(onChange([CoreColorsUI EXCEPT !.hexInput[colorKey] = color],
                                     colorKey, defaultColors))
        /\ UNCHANGED page

\* The user clicks a reset button that is not disabled (line 83).
ClickReset ==
    \E colorKey \in SampledKeys, defaultColors \in DefaultColorSamples :
        /\ ~coreColorsDOM.resetDisabled[colorKey]
        /\ CoreColorsBecome(resetCoreColor(CoreColorsUI, colorKey, defaultColors))
        /\ UNCHANGED page

\* The custom colours are restored from a configuration.
SetCustomCoreColors ==
    \E configuration \in Configurations :
        /\ CoreColorsBecome(setCustomCoreColors(CoreColorsUI, configuration))
        /\ UNCHANGED page

\* The seed colour or the style changed: the defaults are updated.
UpdateDefaultCoreColors ==
    \E defaultColors \in DefaultColorSamples :
        /\ CoreColorsBecome(updateDefaultCoreColors(CoreColorsUI, defaultColors))
        /\ UNCHANGED page

(***************************************************************************)
(* SpecCore: the core colour operations in any order.                         *)
(***************************************************************************)
InitCore == PageLoaded({NoSettings})

NextCore == TypeHex \/ PickColor \/ ClickReset \/ SetCustomCoreColors \/ UpdateDefaultCoreColors

SpecCore == InitCore /\ [][NextCore]_vars

(***************************************************************************)
(* SpecURL: the page holds one set of settings, any of the samples, and       *)
(* updateURL is called with it.                                               *)
(***************************************************************************)
TypedNames ==
    {<<"B", "r", "a", "n", "d", " ", "B", "l", "u", "e">>, <<"a", ":", "b">>,
     <<"x", ",", "y">>, <<"5", "0", "%">>}

TypedColors == {<<"#", "a", "1", "B", "2", "c", "3">>, <<"#", "a", "b", "c">>}

\* What getExtendedColors returns: rows with a name and a valid colour.
ExtendedEntries ==
    { [name |-> n, color |-> c, harmonize |-> hz] :
        n \in TypedNames, c \in { v \in TypedColors : isValidHexColor(v) }, hz \in BOOLEAN }

ExportSettings ==
    [namingFormat |-> "kebab-case", collectionName |-> "Semantic colors",
     stateLayersEnabled |-> TRUE, tonalPalettesEnabled |-> TRUE, w3cFormatEnabled |-> FALSE]

URLSettings ==
    { [seedColor |-> sd, style |-> DEFAULT_STYLE, colorSpec |-> DEFAULT_SPEC,
       customCoreColors |-> core, extendedColors |-> ext, exportSettings |-> ExportSettings] :
        sd \in {DEFAULT_SEED_COLOR, <<"#", "a", "1", "B", "2", "c", "3">>},
        core \in UNION { [keys -> { v \in TypedColors : isValidHexColor(v) }] :
                           keys \in SUBSET {primary, error} },
        ext \in {<<>>} \cup { <<e>> : e \in ExtendedEntries }
                   \cup { ef \in { <<e, f>> : e \in ExtendedEntries, f \in ExtendedEntries } :
                            /\ ef[1].name # ef[2].name
                            /\ IsSixDigitHex(ef[1].color) /\ IsSixDigitHex(ef[2].color)
                            /\ ef[1].harmonize /\ ~ef[2].harmonize } }

InitURL == PageLoaded(URLSettings)

NextURL == UpdateURL \/ Tick \/ TimerFires \/ ReadBack

SpecURL == InitURL /\ [][NextURL]_vars

(***************************************************************************)
(* SpecDebounce: the settings change between the calls of updateURL.          *)
(***************************************************************************)
DebounceSettings ==
    { s \in URLSettings : s.customCoreColors = <<>> /\ Len(s.extendedColors) = 0 }
        \cup { s \in URLSettings :
                 /\ DOMAIN s.customCoreColors = {primary}
                 /\ s.seedColor = DEFAULT_SEED_COLOR
                 /\ Len(s.extendedColors) = 0 }

InitDebounce == PageLoaded(DebounceSettings)

NextDebounce == ChangeSettings(DebounceSettings) \/ UpdateURL \/ Tick \/ TimerFires

SpecDebounce == InitDebounce /\ [][NextDebounce]_vars

---------------------------------------------------------------------------
(* The properties. *)

\* The names in options.affectedPalettes.
Affected == { options.affectedPalettes[i] : i \in 1..Len(options.affectedPalettes) }

\* The affected palettes the record holds: the ones processPalette is called on.
Processed == Affected \cap DOMAIN colorScheme.tonalPalettes

\* The loop over affectedPalettes has ended: processedScheme.tonalPalettes holds
\* everything processPalette wrote.
PalettesProcessed ==
    /\ pc \in {"palettes", "return", "threw", "done"}
    /\ paletteIndex > Len(options.affectedPalettes)

\* processColorScheme has returned from its last line.
Returned == pc = "done" /\ options.preserveHue

\* The reference hue processPalette resolves for palette p of the input.
ReferenceHueOf(p) ==
    ReferenceHue(colorScheme.tonalPalettes[p],
                 SourceColorFor(SourceColorsOf(colorScheme), p, options.neutralHueFromPrimary))

\* The tone's colour before and after processPalette.
ToneBefore(p, tone) == colorScheme.tonalPalettes[p][tone]
ToneAfter(p, tone) == processedScheme.tonalPalettes[p][tone]

NothingToChoose(color, referenceHue, limit) ==
    /\ clampChroma([mode |-> "oklch", l |-> color.l, c |-> color.c,
                    h |-> referenceHue]).mode = "undefined"
    /\ \A d \in (0 - limit)..limit :
         ~inGamut([mode |-> "oklch", l |-> color.l, c |-> color.c, h |-> referenceHue + d])

C2_WrittenColorsInGamut ==
    PalettesProcessed =>
        \A p \in Processed : \A tone \in DOMAIN colorScheme.tonalPalettes[p] :
            ToneAfter(p, tone).kind = "hex" => inGamut(toOklch(ToneAfter(p, tone)))

\* C2 witness: a tone whose chroma was out of gamut at every hue of the window was
\* written with less chroma, at a hue where the gamut boundary is below its own.
C2_Witness ==
    /\ PalettesProcessed
    /\ \E p \in Processed : \E tone \in DOMAIN colorScheme.tonalPalettes[p] :
         /\ ToneAfter(p, tone).kind = "hex"
         /\ ToneAfter(p, tone).c < ToneBefore(p, tone).c
         /\ ToneAfter(p, tone).c > 0
         /\ MaxChromaInGamut(ToneAfter(p, tone).l, ToneAfter(p, tone).h)
                < ToneBefore(p, tone).c

\* C9: a tone whose original colour already has the reference hue and is in gamut
\* at that hue is written back unchanged.
C9_ExactHueUnchanged ==
    PalettesProcessed =>
        \A p \in Processed : ReferenceHueOf(p) # NoHue =>
            \A tone \in DOMAIN colorScheme.tonalPalettes[p] :
                (/\ ToneBefore(p, tone).kind = "hex"
                 /\ ToneBefore(p, tone).h = ReferenceHueOf(p)
                 /\ inGamut(toOklch(ToneBefore(p, tone))))
                    => ToneAfter(p, tone) = ToneBefore(p, tone)

\* C9 witness: a tone at the reference hue, taken from the source colour, was
\* processed under a gamut that is narrower at a neighbouring hue, and kept.
C9_Witness ==
    /\ PalettesProcessed
    /\ \E p \in Processed : \E tone \in DOMAIN colorScheme.tonalPalettes[p] :
         /\ ToneBefore(p, tone).kind = "hex"
         /\ ToneBefore(p, tone).h = ReferenceHueOf(p)
         /\ p \in DOMAIN SourceColorsOf(colorScheme)
         /\ MaxChromaInGamut(ToneBefore(p, tone).l, ReferenceHueOf(p) + 1)
                < ToneBefore(p, tone).c
         /\ ToneAfter(p, tone) = ToneBefore(p, tone)

\* The scheme modes, and a role's colour in the input and in the result.
Modes == {"light", "dark"}
RoleBefore(mode, colorRole) == colorScheme.schemes[mode][colorRole]
RoleAfter(mode, colorRole) == result.schemes[mode][colorRole]

\* The palette name regenerateSchemeColors resolves a role to.
ResolvedPalette(colorRole) == MappedPaletteName(extractPaletteName(colorRole))

\* What regenerateSchemeColors did with a role of the input.
RoleStatus(mode, colorRole) ==
    RegenerateRole(colorRole, RoleBefore(mode, colorRole), colorScheme.tonalPalettes,
                   result.tonalPalettes).status

\* C3: every palette of the input that is not named in affectedPalettes is in the
\* result with exactly the colours it had.
C3_OtherPalettesUnchanged ==
    Returned =>
        \A p \in DOMAIN colorScheme.tonalPalettes \ Affected :
            /\ p \in DOMAIN result.tonalPalettes
            /\ result.tonalPalettes[p] = colorScheme.tonalPalettes[p]

\* C3 witness: a palette outside affectedPalettes that processPalette would change
\* was returned beside an affected palette that was changed.
C3_Witness ==
    /\ Returned
    /\ \E p \in DOMAIN colorScheme.tonalPalettes \ Affected :
         /\ processPalette(colorScheme.tonalPalettes[p],
                           SourceColorFor(SourceColorsOf(colorScheme), p,
                                          options.neutralHueFromPrimary))
                # colorScheme.tonalPalettes[p]
         /\ result.tonalPalettes[p] = colorScheme.tonalPalettes[p]
    /\ \E q \in Processed : result.tonalPalettes[q] # colorScheme.tonalPalettes[q]

\* C4, as the specification states it: every role whose resolved palette is in the
\* input and is not named in affectedPalettes keeps exactly its input colour.
C4_RolesOfOtherPalettesUnchanged ==
    Returned =>
        \A mode \in Modes : \A colorRole \in DOMAIN colorScheme.schemes[mode] :
            ResolvedPalette(colorRole) \in DOMAIN colorScheme.tonalPalettes \ Affected
                => RoleAfter(mode, colorRole) = RoleBefore(mode, colorRole)

\* C5, as the specification states it: every role the generator drew from a
\* processed palette, the fixed variants apart, was recoloured from that palette;
\* none was skipped because its name resolves to no palette.
C5_RolesOfProcessedPalettesRecoloured ==
    Returned =>
        \A mode \in Modes : \A colorRole \in DOMAIN colorScheme.schemes[mode] :
            (/\ ~includes(toLowerCase(colorRole), FixedMarker)
             /\ GeneratorPalette(colorRole) \in Processed)
                => /\ ResolvedPalette(colorRole) = GeneratorPalette(colorRole)
                   /\ RoleStatus(mode, colorRole) = "updated"

\* C6: every role whose name contains "fixed", in any letter case, has in the
\* result exactly its input colour.
C6_FixedRolesUnchanged ==
    Returned =>
        \A mode \in Modes : \A colorRole \in DOMAIN colorScheme.schemes[mode] :
            includes(toLowerCase(colorRole), FixedMarker)
                => RoleAfter(mode, colorRole) = RoleBefore(mode, colorRole)

\* C6 witness: the role "on fixed" of an extended colour whose palette was
\* processed kept a colour of another hue than the palette's, while another role
\* was recoloured.
C6_Witness ==
    /\ Returned
    /\ fixed \in Processed
    /\ \E mode \in Modes :
         /\ RoleAfter(mode, onFixed) = RoleBefore(mode, onFixed)
         /\ \A tone \in DOMAIN result.tonalPalettes[fixed] :
              result.tonalPalettes[fixed][tone].h # RoleBefore(mode, onFixed).h
         /\ \E colorRole \in DOMAIN colorScheme.schemes[mode] :
              RoleAfter(mode, colorRole) # RoleBefore(mode, colorRole)

\* C7, as the specification states it: the roles scrim and shadow have in the
\* result exactly their input colour, whatever palettes the input holds and
\* whatever affectedPalettes names.
C7_ScrimShadowUnchanged ==
    Returned =>
        \A mode \in Modes :
            \A colorRole \in {scrim, shadow} \cap DOMAIN colorScheme.schemes[mode] :
                RoleAfter(mode, colorRole) = RoleBefore(mode, colorRole)

\* C8: a recoloured role has its own original lightness, the hue of the corrected
\* palette colour at the matched tone, and its own original chroma when that
\* combination is in gamut; when it is not, less chroma and still that hue.
C8_RoleKeepsLightnessAndChroma ==
    Returned =>
        \A mode \in Modes : \A colorRole \in DOMAIN colorScheme.schemes[mode] :
            LET p == ResolvedPalette(colorRole)
                before == toOklch(RoleBefore(mode, colorRole))
                tone == ClosestTone(colorScheme.tonalPalettes[p],
                                    DOMAIN colorScheme.tonalPalettes[p],
                                    before.l, NoTone, Infinity)
                corrected == toOklch(result.tonalPalettes[p][tone])
                after == toOklch(RoleAfter(mode, colorRole))
                wanted == [mode |-> "oklch", l |-> before.l, c |-> before.c,
                           h |-> corrected.h]
            IN  (RoleStatus(mode, colorRole) = "updated" /\ corrected.h # NoHue) =>
                    /\ after.l = before.l
                    /\ IF inGamut(wanted) THEN after.c = before.c ELSE after.c < before.c
                    /\ after.c > 0 => after.h = corrected.h

\* C8 witness: a role was recoloured with less chroma than it had, at the hue of
\* the corrected palette colour, which is not the hue it had.
C8_Witness ==
    /\ Returned
    /\ \E mode \in Modes : \E colorRole \in DOMAIN colorScheme.schemes[mode] :
         /\ RoleStatus(mode, colorRole) = "updated"
         /\ RoleAfter(mode, colorRole).c > 0
         /\ RoleAfter(mode, colorRole).c < RoleBefore(mode, colorRole).c
         /\ RoleAfter(mode, colorRole).l = RoleBefore(mode, colorRole).l
         /\ RoleAfter(mode, colorRole).h # RoleBefore(mode, colorRole).h

\* C10, as the specification states it: processColorScheme never throws; a failed
\* colour conversion or a clamp that returns no colour leaves the affected colour
\* unchanged.
C10_NeverThrows == pc # "threw"

\* A hex string of a colour with a hue.
HasHue(hex) == hex.kind = "hex" /\ hex.h # NoHue

\* The source colour processColorScheme hands to processPalette for palette p.
SourceOf(p) ==
    SourceColorFor(SourceColorsOf(colorScheme), p, options.neutralHueFromPrimary)

\* The palette p of the input and what processPalette returned for it.
PaletteBefore(p) == colorScheme.tonalPalettes[p]
PaletteAfter(p) == processedScheme.tonalPalettes[p]

\* Under the full gamut every tone with chroma is written at the reference hue:
\* `after` is `before` corrected to the hue h.
CorrectedTo(before, after, h) ==
    /\ DOMAIN after = DOMAIN before
    /\ \A t \in DOMAIN before :
         IF before[t].kind = "hex" /\ before[t].c > 0
         THEN after[t] = HexColor(before[t].l, before[t].c, h)
         ELSE after[t] = before[t]

\* C11: a palette whose tones are all achromatic, processed without a source
\* colour that has a hue, is returned with every tone unchanged.
C11_AchromaticPaletteUnchanged ==
    PalettesProcessed =>
        \A p \in Processed :
            (/\ \A t \in DOMAIN PaletteBefore(p) :
                    PaletteBefore(p)[t].kind = "hex" /\ PaletteBefore(p)[t].c = 0
             /\ ~HasHue(SourceOf(p)))
                => PaletteAfter(p) = PaletteBefore(p)

\* C11 witness: a palette of three gray tones, with a gray source colour, went
\* through processPalette and was returned as it was.
C11_Witness ==
    /\ PalettesProcessed
    /\ \E p \in Processed :
         /\ Cardinality(DOMAIN PaletteBefore(p)) = 3
         /\ \A t \in DOMAIN PaletteBefore(p) :
              PaletteBefore(p)[t].kind = "hex" /\ PaletteBefore(p)[t].c = 0
         /\ SourceOf(p).kind = "hex" /\ SourceOf(p).h = NoHue
         /\ PaletteAfter(p) = PaletteBefore(p)

\* C13: when the source colour supplied for a palette has a hue, that hue is the
\* reference hue, whatever the palette's tones are; when there is no source colour
\* or it has no hue, the reference hue is the hue of one of the palette's tones, or
\* there is none and the palette is left as it was.
C13_ReferenceHueFromSource ==
    PalettesProcessed =>
        \A p \in Processed :
            IF HasHue(SourceOf(p))
            THEN CorrectedTo(PaletteBefore(p), PaletteAfter(p), SourceOf(p).h)
            ELSE \/ PaletteAfter(p) = PaletteBefore(p)
                 \/ \E t \in DOMAIN PaletteBefore(p) :
                      /\ HasHue(PaletteBefore(p)[t])
                      /\ CorrectedTo(PaletteBefore(p), PaletteAfter(p), PaletteBefore(p)[t].h)

\* C13 witness: a palette with a tone of full chroma at a hue of its own was
\* corrected to the hue of its source colour.
C13_Witness ==
    /\ PalettesProcessed
    /\ \E p \in Processed : \E t \in DOMAIN PaletteBefore(p) :
         /\ HasHue(SourceOf(p))
         /\ HasHue(PaletteBefore(p)[t])
         /\ PaletteBefore(p)[t].c = MaxC
         /\ PaletteBefore(p)[t].h # SourceOf(p).h
         /\ PaletteAfter(p)[t].h = SourceOf(p).h

\* The positions of the preference order whose tone is in the palette with a hue.
PreferredWithHue(palette) ==
    { i \in 1..Len(tonePreference) :
        tonePreference[i] \in DOMAIN palette /\ HasHue(palette[tonePreference[i]]) }

\* The first position of the preference order whose tone exceeds the threshold.
FirstAboveThreshold(palette) ==
    LET above == { i \in PreferredWithHue(palette) :
                      palette[tonePreference[i]].c > ChromaThreshold }
    IN  IF above = {} THEN 0 ELSE CHOOSE i \in above : \A j \in above : i <= j

\* C14, as the specification states it: a reference hue inferred from the palette
\* is the hue of the first tone of the preference order above the chroma threshold;
\* when no tone is above it, the hue of a tone of highest chroma among all the
\* tones of the palette that have a hue; the palette is left uncorrected only when
\* none of its tones has a hue.
C14_InferredFromAllTones ==
    PalettesProcessed =>
        \A p \in Processed : ~HasHue(SourceOf(p)) =>
            LET before == PaletteBefore(p)
                first == FirstAboveThreshold(before)
                hued == { t \in DOMAIN before : HasHue(before[t]) }
            IN  IF first # 0
                THEN CorrectedTo(before, PaletteAfter(p), before[tonePreference[first]].h)
                ELSE IF hued # {}
                THEN \E t \in hued :
                        /\ \A u \in hued : before[u].c <= before[t].c
                        /\ CorrectedTo(before, PaletteAfter(p), before[t].h)
                ELSE PaletteAfter(p) = before

\* C14, amended: a reference hue inferred from the palette is the hue of the first
\* tone of the preference order (50, 40, 60, 30, 70, 20, 80, 10, 90) above the
\* chroma threshold; when none of those tones is above it, the hue of the one of
\* highest chroma among those that have a hue, the earliest in the order among
\* equals; the palette is left uncorrected when none of the tones of the
\* preference order has a hue, whatever its other tones are.
C14_InferredFromPreferredTones ==
    PalettesProcessed =>
        \A p \in Processed : ~HasHue(SourceOf(p)) =>
            LET before == PaletteBefore(p)
                first == FirstAboveThreshold(before)
                preferred == PreferredWithHue(before)
                best == CHOOSE i \in preferred :
                            \A j \in preferred :
                                \/ before[tonePreference[j]].c < before[tonePreference[i]].c
                                \/ /\ before[tonePreference[j]].c = before[tonePreference[i]].c
                                   /\ i <= j
            IN  IF first # 0
                THEN CorrectedTo(before, PaletteAfter(p), before[tonePreference[first]].h)
                ELSE IF preferred # {}
                THEN CorrectedTo(before, PaletteAfter(p), before[tonePreference[best]].h)
                ELSE PaletteAfter(p) = before

\* C14 witness: no tone is above the threshold, and the palette was corrected to
\* the hue of a tone that comes later in the preference order than another tone
\* with a hue and less chroma.
C14_Witness ==
    /\ PalettesProcessed
    /\ \E p \in Processed :
         /\ ~HasHue(SourceOf(p))
         /\ FirstAboveThreshold(PaletteBefore(p)) = 0
         /\ \E i, j \in PreferredWithHue(PaletteBefore(p)) :
              /\ i < j
              /\ PaletteBefore(p)[tonePreference[i]].c < PaletteBefore(p)[tonePreference[j]].c
              /\ PaletteAfter(p)[tonePreference[i]].h = PaletteBefore(p)[tonePreference[j]].h

\* The result has the palettes of the input, each with the tone keys it had, and
\* the roles of the input in both schemes.
SamePalettesAndRoles ==
    /\ DOMAIN result.tonalPalettes = DOMAIN colorScheme.tonalPalettes
    /\ \A p \in DOMAIN colorScheme.tonalPalettes :
         DOMAIN result.tonalPalettes[p] = DOMAIN colorScheme.tonalPalettes[p]
    /\ DOMAIN result.schemes = DOMAIN colorScheme.schemes
    /\ \A mode \in Modes : DOMAIN result.schemes[mode] = DOMAIN colorScheme.schemes[mode]

\* C12, as the specification states it: the record processColorScheme returns has
\* the top-level fields of the input, the same palette names each with the same
\* tone keys, and the same role names in schemes.light and schemes.dark.
C12_SameShape ==
    pc = "done" =>
        /\ DOMAIN result = DOMAIN colorScheme
        /\ SamePalettesAndRoles

\* C12, amended: the record returned by a processing run has the top-level fields
\* of the input other than sourceColors, which it never has, the same palette
\* names each with the same tone keys, and the same role names in both schemes; a
\* call with preserveHue off returns the input record itself.
C12_SameShapeWithoutSourceColors ==
    pc = "done" =>
        IF options.preserveHue
        THEN /\ DOMAIN result = DOMAIN colorScheme \ {"sourceColors"}
             /\ SamePalettesAndRoles
        ELSE result = colorScheme

\* C12 witness: a record with sourceColors was processed, a palette and a role
\* were given other colours, and the record was returned.
C12_Witness ==
    /\ Returned
    /\ "sourceColors" \in DOMAIN colorScheme
    /\ \E p \in Processed : result.tonalPalettes[p] # colorScheme.tonalPalettes[p]
    /\ \E mode \in Modes : result.schemes[mode] # colorScheme.schemes[mode]

\* The deviations findBestGamutColor may try for a tone, 0 included.
Window(tone) == IF tone >= 40 /\ tone <= 60 THEN (0 - 5)..5 ELSE (0 - 8)..8

Abs(x) == IF x < 0 THEN 0 - x ELSE x

\* The colour's lightness and chroma at the hue d degrees from the reference hue.
Candidate(color, referenceHue, d) ==
    [mode |-> "oklch", l |-> color.l, c |-> color.c, h |-> referenceHue + d]

\* The deviations of the window at which the colour's own chroma is in gamut.
FullChromaAt(color, referenceHue, window) ==
    { d \in window : inGamut(Candidate(color, referenceHue, d)) }

\* The deviations of the window at which the clamp returns a colour.
ClampedAt(color, referenceHue, window) ==
    { d \in window : clampChroma(Candidate(color, referenceHue, d)).mode # "undefined" }

\* C15: whenever some hue of the window holds the tone's lightness and chroma in
\* gamut, the colour chosen has that lightness and chroma and the hue of such a
\* candidate with the smallest deviation: deviation 0 before 1, 1 before 2, and so
\* on.
C15_FirstCandidateInGamut ==
    PalettesProcessed =>
        \A p \in Processed : ReferenceHueOf(p) # NoHue =>
            \A tone \in DOMAIN PaletteBefore(p) : ToneBefore(p, tone).kind = "hex" =>
                LET before == toOklch(ToneBefore(p, tone))
                    referenceHue == ReferenceHueOf(p)
                    full == FullChromaAt(before, referenceHue, Window(tone))
                    nearest == { d \in full : \A e \in full : Abs(d) <= Abs(e) }
                IN  full # {} =>
                        \E d \in nearest :
                            ToneAfter(p, tone) = formatHex(Candidate(before, referenceHue, d))

\* C15 witness: the tone's chroma is out of gamut at the reference hue and one
\* degree to either side of it, in gamut further away, and the tone was written
\* with its own chroma at another hue than it had.
C15_Witness ==
    /\ PalettesProcessed
    /\ \E p \in Processed : \E tone \in DOMAIN PaletteBefore(p) :
         LET full == FullChromaAt(toOklch(ToneBefore(p, tone)), ReferenceHueOf(p),
                                  Window(tone))
         IN  /\ full # {}
             /\ full \cap {-1, 0, 1} = {}
             /\ ToneAfter(p, tone).c = ToneBefore(p, tone).c
             /\ ToneAfter(p, tone).h # ToneBefore(p, tone).h

RecolouredFrom(mode, colorRole, tone) ==
    LET before == toOklch(RoleBefore(mode, colorRole))
        processedOklch == toOklch(result.tonalPalettes[ResolvedPalette(colorRole)][tone])
    IN  /\ processedOklch.mode # "undefined"
        /\ RoleAfter(mode, colorRole) =
               HexColor(before.l, before.c,
                        IF processedOklch.h = NoHue THEN 0 ELSE processedOklch.h)

\* The tones of the original palette p whose colours convert, and among them the
\* ones no other is strictly closer than to the lightness.
TonesThatConvert(p) ==
    { t \in DOMAIN PaletteBefore(p) : toOklch(ToneBefore(p, t)).mode # "undefined" }

ClosestTones(p, lightness) ==
    { t \in TonesThatConvert(p) :
        \A u \in TonesThatConvert(p) :
            Abs(toOklch(ToneBefore(p, t)).l - lightness)
                <= Abs(toOklch(ToneBefore(p, u)).l - lightness) }

\* C18: every role that is recoloured has the hue the corrected palette holds at
\* a tone of the original palette whose lightness is closest to the role's
\* original lightness: no tone of the original palette is strictly closer.
C18_ClosestToneOfOriginalPalette ==
    Returned =>
        \A mode \in Modes : \A colorRole \in DOMAIN colorScheme.schemes[mode] :
            RoleStatus(mode, colorRole) = "updated" =>
                \E tone \in ClosestTones(ResolvedPalette(colorRole),
                                         toOklch(RoleBefore(mode, colorRole)).l) :
                    RecolouredFrom(mode, colorRole, tone)

\* C18 witness: a role was given the hue of a tone that is not the last of its
\* palette and not at the role's lightness, a later tone being farther away.
C18_Witness ==
    /\ Returned
    /\ \E colorRole \in DOMAIN colorScheme.schemes.light :
         LET p == ResolvedPalette(colorRole)
             lightness == toOklch(RoleBefore("light", colorRole)).l
         IN  /\ RoleStatus("light", colorRole) = "updated"
             /\ RoleAfter("light", colorRole) # RoleBefore("light", colorRole)
             /\ \E tone \in ClosestTones(p, lightness) :
                  /\ RecolouredFrom("light", colorRole, tone)
                  /\ toOklch(ToneBefore(p, tone)).l # lightness
                  /\ \E later \in TonesThatConvert(p) \ ClosestTones(p, lightness) :
                       later > tone

\* C19: a role whose palette is in the record and has no tone that converts (it
\* is empty, or every tone is a string that is no colour) has its input colour in
\* the result, and the other roles of its scheme whose palettes have such a tone
\* are recoloured from them all the same.
C19_NoToneMatchKeepsColour ==
    Returned =>
        \A mode \in Modes : \A colorRole \in DOMAIN colorScheme.schemes[mode] :
            (/\ ResolvedPalette(colorRole) \in DOMAIN colorScheme.tonalPalettes
             /\ TonesThatConvert(ResolvedPalette(colorRole)) = {}) =>
                /\ RoleAfter(mode, colorRole) = RoleBefore(mode, colorRole)
                /\ \A other \in DOMAIN colorScheme.schemes[mode] \ {colorRole} :
                     (/\ ResolvedPalette(other) \in DOMAIN colorScheme.tonalPalettes
                      /\ TonesThatConvert(ResolvedPalette(other)) # {}
                      /\ ~IsFixedRole(other)
                      /\ toOklch(RoleBefore(mode, other)).mode # "undefined") =>
                         \E tone \in TonesThatConvert(ResolvedPalette(other)) :
                             RecolouredFrom(mode, other, tone)

\* C19 witness: the palette of a role has tones and none of them converts, the
\* role has its input colour, and another role of the scheme has changed colour.
C19_Witness ==
    /\ Returned
    /\ \E colorRole \in DOMAIN colorScheme.schemes.dark :
         /\ ResolvedPalette(colorRole) \in DOMAIN colorScheme.tonalPalettes
         /\ PaletteBefore(ResolvedPalette(colorRole)) # <<>>
         /\ TonesThatConvert(ResolvedPalette(colorRole)) = {}
         /\ RoleStatus("dark", colorRole) = "no matching tone"
         /\ RoleAfter("dark", colorRole) = RoleBefore("dark", colorRole)
         /\ \E other \in DOMAIN colorScheme.schemes.dark :
              RoleAfter("dark", other) # RoleBefore("dark", other)

\* C20, as the specification states it: for every palette name p of the input, a
\* core palette's or an extended colour's, every role of a scheme whose name is
\* p, "on p", "p container", "on p container", onP, pContainer or onPContainer is
\* resolved to palette p when the schemes are regenerated.
C20_RoleNamesResolveToPalette ==
    Returned =>
        \A p \in DOMAIN colorScheme.tonalPalettes :
            \A mode \in Modes : \A colorRole \in DOMAIN colorScheme.schemes[mode] :
                colorRole \in RoleNamesOf(p) => ResolvedPalette(colorRole) = p

C22_LightnessKeptChromaNotRaised ==
    PalettesProcessed =>
        \A p \in Processed : \A tone \in DOMAIN PaletteBefore(p) :
            ToneBefore(p, tone).kind = "hex" =>
                /\ ToneAfter(p, tone).kind = "hex"
                /\ ToneAfter(p, tone).l = ToneBefore(p, tone).l
                /\ ToneAfter(p, tone).c <= ToneBefore(p, tone).c

\* C22 witness: a tone was written at another hue with its lightness and with
\* less chroma than it had.
C22_Witness ==
    /\ PalettesProcessed
    /\ \E p \in Processed : \E tone \in DOMAIN PaletteBefore(p) :
         /\ ToneAfter(p, tone).h \notin {NoHue, ToneBefore(p, tone).h}
         /\ ToneAfter(p, tone).l = ToneBefore(p, tone).l
         /\ ToneAfter(p, tone).c < ToneBefore(p, tone).c
         /\ ToneAfter(p, tone).c > 0

\* C23, as stated: processColorScheme is idempotent: handed its own result with
\* the same options, it returns tonalPalettes and schemes equal to that result.
C23_Idempotent ==
    (pc = "done" /\ previous # NoCall) =>
        /\ result.tonalPalettes = previous.tonalPalettes
        /\ result.schemes = previous.schemes

\* The role a state layer is over.
LayerRole(layer) == IF layer = surface THEN onSurface ELSE layer

\* C24, as stated: in every result stored for display, with hue preservation on
\* or off, each state-layer colour is the current scheme colour of its role in
\* the same mode (onSurface for the surface layer) followed by the opacity of
\* its state.
C24_StateLayersFollowSchemes ==
    pc = "done" =>
        \A mode \in Modes : \A layer \in DOMAIN result.stateLayers[mode] :
            \A state \in DOMAIN result.stateLayers[mode][layer] :
                result.stateLayers[mode][layer][state] =
                    [kind |-> "hex with alpha",
                     color |-> result.schemes[mode][LayerRole(layer)],
                     alpha |-> (STATE_LAYER_OPACITIES[state] * 255 + 50) \div 100]

(***************************************************************************)
(* C25: for every palette the generator produces, the source colour it        *)
(* records for the palette is the colour the palette was generated from (for  *)
(* an extended colour with harmonization on, the harmonized colour), so the   *)
(* reference hue the corrector takes from it is the hue the palette was       *)
(* built with.                                                                *)
(***************************************************************************)
\* The colour the palette `name` of a generated record was built from.
BuiltFrom(task, name) ==
    LET parsedData == buildFromUI(task.colorSettings)
    IN  IF name \in Range(ExtendedNames(task.extendedColors))
        THEN ExtendedPaletteColor(LastNamed(task.extendedColors, name), parsedData.seedColor)
        ELSE SchemePaletteColor(name, parsedData.seedColor, parsedData.customCoreColors)

C25_SourceColorIsWhatPaletteWasBuiltFrom ==
    \A i \in 1..Len(microtasks) :
        LET task == microtasks[i]
        IN  \A name \in DOMAIN task.result.tonalPalettes :
                /\ task.result.sourceColors[name] = BuiltFrom(task, name)
                /\ ReferenceHue(task.result.tonalPalettes[name],
                                task.result.sourceColors[name]) = BuiltFrom(task, name).h

(***************************************************************************)
(* C26: however the triggers of regenerateWithExtendedColors interleave with  *)
(* the completion of earlier generations, once every handler has finished     *)
(* the stored original result and the displayed output are the ones computed  *)
(* from the settings the last trigger read, and the result of an earlier      *)
(* trigger never overwrites that of a later one.                              *)
(***************************************************************************)
\* Every handler that was triggered has run to its end.
AllFinished == pc = "idle" /\ microtasks = <<>> /\ resumed = NoTask

\* The handlers that have not stored their result yet.
Unfinished == Range(microtasks) \cup (IF resumed = NoTask THEN {} ELSE {resumed})

C26_LastTriggerWins ==
    /\ \A task \in Unfinished : task.trigger > storedFrom
    /\ (AllFinished /\ triggers > 0) =>
          /\ storedFrom = triggers
          /\ displayed = FormattedText(originalResult)
          /\ "tonalPalettes" \in DOMAIN originalResult
          /\ ~lastRead.preserveHue =>
                originalResult = generateColorScheme(buildFromUI(lastRead),
                                     getExtendedColors(lastRead.extendedColors))
          /\ lastRead.preserveHue =>
                LET generated == generateColorScheme(buildFromUI(lastRead),
                                     getExtendedColors(lastRead.extendedColors))
                IN  /\ DOMAIN originalResult.tonalPalettes = DOMAIN generated.tonalPalettes
                    /\ originalResult.stateLayers = generated.stateLayers
                    /\ "sourceColors" \notin DOMAIN originalResult

\* Two triggers read different settings, the second with hue preservation on; both
\* handlers have finished and the result of the second is stored.
C26_Witness ==
    /\ AllFinished
    /\ triggers >= 2
    /\ storedFrom = triggers
    /\ lastRead.preserveHue
    /\ "sourceColors" \notin DOMAIN originalResult
    /\ settings # lastRead

(***************************************************************************)
(* C27: for any sequence of calls of updateURL, once 1000 ms have passed      *)
(* after the last call without another call the page's query encodes the      *)
(* settings passed to that call, and the settings of a call that was          *)
(* followed by another call within 1000 ms are never written to the URL.      *)
(***************************************************************************)
C27_DebounceWritesLastCall ==
    /\ (urlHistory.calls > 0 /\ urlHistory.sinceLastCall > DebounceDelay) =>
          browser.location = UrlOf(QueryOf(urlHistory.lastPassed[1]))
    /\ urlHistory.ran \cap urlHistory.superseded = {}

\* A call was followed by another within the delay, a later call passed other
\* settings than the page holds now, and its query stands in the URL after the
\* delay, written over an earlier one.
C27_Witness ==
    /\ urlHistory.superseded # {}
    /\ Cardinality(urlHistory.ran) >= 2
    /\ urlHistory.sinceLastCall > DebounceDelay
    /\ browser.timers = {}
    /\ urlHistory.lastPassed[1] # settings
    /\ browser.location = UrlOf(QueryOf(urlHistory.lastPassed[1]))

(***************************************************************************)
(* C28: for every set of custom core colours and every list of extended       *)
(* colours the UI accepts as valid, writing them to the URL with updateURL    *)
(* and reading the query back with getSettingsFromURL returns the same core   *)
(* colours and the same extended colours (name, colour, harmonize flag) in    *)
(* the same order.                                                            *)
(***************************************************************************)
C28_URLRoundTrip ==
    restored # <<>> =>
        /\ restored[1].read.customCoreColors.entries = restored[1].passed.customCoreColors
        /\ restored[1].read.extendedColors = restored[1].passed.extendedColors

---------------------------------------------------------------------------
\* The key of the converted value a mode is written under.
ModeKey(mode) == IF mode = "light" THEN "Light" ELSE "Dark"

\* The State Layers group holds the token "colour state" with the entry's colour
\* under its mode's key.
HasLayerToken(tokens, stateLayers, mode, colour, state) ==
    LET variableName == colour \o <<" ">> \o StateNames[state]
    IN  /\ "State Layers" \in DOMAIN tokens
        /\ variableName \in DOMAIN tokens["State Layers"]
        /\ ModeKey(mode) \in DOMAIN tokens["State Layers"][variableName].value
        /\ tokens["State Layers"][variableName].value[ModeKey(mode)] =
               hexToRgba(stateLayers[mode][colour][state])

\* C29: for every state-layer entry stateLayers[mode][colour][state] of the
\* record given to convertToW3cDtcgFormat, entries of extended colours whose
\* names contain spaces included, the output holds a State Layers token named
\* "colour state" whose value carries that entry's colour under Light or Dark
\* according to its mode.
C29_EveryLayerEntryHasItsToken ==
    (w3cResult # <<>> /\ "State Layers" \in DOMAIN w3cResult[1]) =>
        \A mode \in Modes : \A colour \in DOMAIN originalResult.stateLayers[mode] :
            \A state \in DOMAIN originalResult.stateLayers[mode][colour] :
                HasLayerToken(w3cResult[1], originalResult.stateLayers, mode, colour, state)

---------------------------------------------------------------------------
\* C30: after any sequence of core-colour operations (typing or picking a
\* colour, reset, restore from configuration, change of primary acting as new
\* seed, programmatic default update), for every core colour key the reset
\* button is enabled exactly when that key is present in customCoreColors.
C30_ResetButtonFollowsCustomColors ==
    \A colorKey \in CoreColorKeys :
        ~coreColorsDOM.resetDisabled[colorKey]
            <=> colorKey \in DOMAIN coreColorsManager.customCoreColors

===========================================================================
